---- MODULE Spec2Model ----
(***************************************************************************)
(* State-machine model of                                                  *)
(*   src/mpid/ch3/src/ch3u_comm.c  (communicator registry, VC-table        *)
(*                                  builder, create/destroy hooks)         *)
(*   src/mpi/coll/igather/igather.c (algorithm selection of Igather)       *)
(***************************************************************************)
EXTENDS Integers, Sequences, FiniteSets, TLC

(***************************************************************************)
(* Bounds of the model.                                                    *)
(***************************************************************************)
\* number of processes of the process group (MPIR_Process.size)
NProcs == 2
\* number of communicator objects besides the three bootstrap ones
MaxComms == 2
\* longest mapper list of one communicator
MaxMappers == 2
\* number of distinct hook functions a client module may register
MaxHooks == 1
\* number of distinct non-zero error codes a callee may return
MaxErr == 2
\* largest datatype size, count and group size of a gather call
MaxSize == 2
MaxCount == 2
MaxGroup == 2
\* the short-message thresholds tried are 2, 4, ..., 2 * MaxThreshold bytes
MaxThreshold == 2
\* largest tree arity (MPIR_CVAR_IGATHER_TREE_KVAL ranges over 2..MaxK)
MaxK == 3
\* communicators built from mappers while failure notifications arrive
MaxFailedComms == 1

(***************************************************************************)
(* Program constants.                                                      *)
(***************************************************************************)
NULL == 0
MPI_SUCCESS == 0
\* the error class of a failed MPIDI_VCRT_Create
MPI_ERR_OTHER == 15
\* handles of the three bootstrap communicators of MPIR_Process
comm_world == 1
comm_self == 2
icomm_world == 3
\* root values of an inter-communicator call (mpi.h)
MPI_PROC_NULL == -1
MPI_ROOT == -3

BootComms == {comm_world, comm_self, icomm_world}
GenComms == (icomm_world + 1)..(icomm_world + MaxComms)
Comms == BootComms \cup GenComms
ErrCodes == 1..MaxErr

VARIABLES
    comm,           \* [Comms -> MPIR_Comm record]
    vcrts,          \* sequence of MPIDI_VCRT records; a handle is an index
    comm_list,      \* live-communicator list, head first
    create_hooks,   \* create hook list, head first (tail = last element)
    destroy_hooks,  \* destroy hook list, head first
    initialized,    \* MPIDI_CH3I_Comm_init has run
    pg_rank,        \* MPIR_Process.rank
    hook_log,       \* hook entries invoked by the latest commit / destroy
    reg_log,        \* [create, destroy]: hook entries in registration order;
                    \* given, malloc_failed: the entry and the allocation
                    \* outcome of the latest registration; freed: the
                    \* entries handed to MPL_free; finalized: the finalize
                    \* callback has run
    last_op,        \* the latest operation: its name, communicator, mappers
    mpi_errno,      \* value returned by the latest operation
    cvar,           \* the MPIR_CVAR_ configuration values
    args,           \* arguments of the MPIR_Igather call
    ig_pc,          \* "call" before MPIR_Igather runs, "done" after
    res,            \* what the call did and returned
    peer,           \* a remote-group rank of the same gather: [pc, args, res]
    new_failed_procs,   \* lpids of the group given to the latest notification
    progress_signal     \* completion signals raised by the latest notification

failVars == <<new_failed_procs, progress_signal>>

commVars == <<comm, vcrts, comm_list, create_hooks, destroy_hooks, initialized,
              pg_rank, hook_log, reg_log, last_op, mpi_errno>>

(***************************************************************************)
(* Data.                                                                   *)
(***************************************************************************)
\* struct hook_elt: a function and its parameter
HookElt(fn, param) == [hook_fn |-> fn, param |-> param]
UserHooks == {HookElt("user", p) : p \in 1..MaxHooks}

\* an operation on communicator c; mapper_head is the mapper list attached
\* to c while it is committed (the list is transient: it is gone afterwards)
Op(name, c, mappers) == [op |-> name, comm |-> c, mapper_head |-> mappers]

\* a communicator object before construction
EmptyComm ==
    [state |-> "uncommitted", comm_kind |-> "intra", rank |-> 0,
     local_size |-> 0, remote_size |-> 0, vcrt |-> NULL, local_vcrt |-> NULL,
     local_comm |-> NULL, anysource_enabled |-> FALSE,
     eager_thresh |-> 0, last_ack_rank |-> 0]

\* the memory of a destroyed communicator is gone
DestroyedComm == [EmptyComm EXCEPT !.state = "destroyed"]

\* MPIDI_VCRT_Create: a fresh table of the given size holding one reference;
\* its slots are unset (-1) until an endpoint is duplicated into them
VCRT_Create(T, size) ==
    Append(T, [ref_count |-> 1, size |-> size,
               vcr_table |-> [i \in 1..size |-> -1], freed |-> FALSE])

\* MPIDI_VCRT_Add_ref
VCRT_Add_ref(T, h) == [T EXCEPT ![h].ref_count = @ + 1]

\* MPIDI_VCRT_Release: drop one reference, free the table with the last one
VCRT_Release(T, h) ==
    IF T[h].ref_count - 1 = 0
    THEN [T EXCEPT ![h] = [ref_count |-> 0, size |-> 0, vcr_table |-> <<>>,
                           freed |-> TRUE]]
    ELSE [T EXCEPT ![h].ref_count = @ - 1]

\* LL_PREPEND(head, tail, elt)
LL_PREPEND(list, elt) == <<elt>> \o list

\* COMM_ADD: DL_PREPEND_NP(comm_list, comm, dev.next, dev.prev)
COMM_ADD(list, c) == <<c>> \o list

\* COMM_DEL: DL_DELETE_NP(comm_list, comm, dev.next, dev.prev)
COMM_DEL(list, c) == SelectSeq(list, LAMBDA x : x # c)

(***************************************************************************)
(* dup_vcrt and map_size.                                                  *)
(***************************************************************************)
\* a flag the loop always clears
IdentityFlag_cleared(mapper) == FALSE

\* the loop of lines 135-138: flag stays 1 iff src_mapping[i] = i for all i
IdentityFlag(mapper) ==
    \A i \in 1..mapper.src_mapping_size : mapper.src_mapping[i] = i - 1

\* lines 147-162: allocate the table with the first mapper of the pass, then
\* duplicate the mapper's endpoints into it at vcrt_offset.  The result of
\* MPIDI_VCRT_Create is not looked at (line 151): when it fails (st.nomem)
\* *dest_vcrt is what it was and the loops of lines 153-162 store through it
\* (st.wild)
dup_vcrt_copy(st, src_vcrt, mapper, src_comm_size, vcrt_size, vcrt_offset) ==
    IF st.nomem THEN [st EXCEPT !.wild = TRUE]
    ELSE
    LET s1 == IF vcrt_offset = 0
              THEN [st EXCEPT !.T = VCRT_Create(st.T, vcrt_size),
                              !.dest = Len(st.T) + 1]
              ELSE st
        n == IF mapper.type = "DUP" THEN src_comm_size
             ELSE mapper.src_mapping_size
        srcrank(i) == IF mapper.type = "DUP" THEN i
                      ELSE mapper.src_mapping[i + 1]
        srctab == s1.T[src_vcrt].vcr_table
    IN  [s1 EXCEPT !.T = [s1.T EXCEPT ![s1.dest].vcr_table =
                   [j \in DOMAIN @ |->
                       IF (j - 1 - vcrt_offset) \in 0..(n - 1)
                       THEN srctab[srcrank(j - 1 - vcrt_offset) + 1]
                       ELSE @[j]]]]

\* a dup_vcrt that never takes the shortcut of line 124
dup_vcrt_always_copies(st, src_vcrt, mapper, src_comm_size, vcrt_size, vcrt_offset) ==
    dup_vcrt_copy(st, src_vcrt, mapper, src_comm_size, vcrt_size, vcrt_offset)

\* st = [T |-> tables, dest |-> *dest_vcrt, nomem |-> MPIDI_VCRT_Create
\* fails, wild |-> a store went through a table never allocated]; the result
\* has the same shape
dup_vcrt(st, src_vcrt, mapper, src_comm_size, vcrt_size, vcrt_offset) ==
    IF mapper.type = "DUP" /\ src_comm_size = vcrt_size
    THEN [st EXCEPT !.T = VCRT_Add_ref(st.T, src_vcrt), !.dest = src_vcrt]
    ELSE IF /\ mapper.type = "IRREGULAR"
            /\ mapper.src_mapping_size = vcrt_size
            /\ IdentityFlag(mapper)
    THEN [st EXCEPT !.T = VCRT_Add_ref(st.T, src_vcrt), !.dest = src_vcrt]
    ELSE dup_vcrt_copy(st, src_vcrt, mapper, src_comm_size, vcrt_size, vcrt_offset)

map_size(map) ==
    IF map.type = "IRREGULAR" THEN map.src_mapping_size
    ELSE IF map.dir = "L2L" \/ map.dir = "L2R"
    THEN comm[map.src_comm].local_size
    ELSE comm[map.src_comm].remote_size

(***************************************************************************)
(* The two mapper passes of MPIDI_CH3I_Comm_commit_pre_hook.               *)
(***************************************************************************)
LocalDirs == {"L2L", "R2L"}
RemoteDirs == {"L2R", "R2R"}

RECURSIVE SumSizes(_, _)
\* vcrt_size of a pass: the sizes of the mappers whose direction is in dirs
SumSizes(mappers, dirs) ==
    IF mappers = <<>> THEN 0
    ELSE (IF Head(mappers).dir \in dirs THEN map_size(Head(mappers)) ELSE 0)
         + SumSizes(Tail(mappers), dirs)

\* a choice of source table that always takes the primary table
SrcVcrt_primary(mapper) == comm[mapper.src_comm].vcrt

\* the source table a mapper reads, lines 256-281 and 305-317
SrcVcrt(mapper) ==
    LET src == comm[mapper.src_comm] IN
    IF mapper.dir \in {"L2L", "L2R"}
    THEN IF src.comm_kind = "intra" THEN src.vcrt ELSE src.local_vcrt
    ELSE src.vcrt

\* the source group size handed to dup_vcrt
SrcCommSize(mapper) ==
    IF mapper.dir \in {"L2L", "L2R"}
    THEN comm[mapper.src_comm].local_size
    ELSE comm[mapper.src_comm].remote_size

RECURSIVE MapperPass(_, _, _, _, _)
\* one LL_FOREACH over the mapper list; st carries T, dest and vcrt_offset
MapperPass(mappers, dirs, vcrt_size, vcrt_offset, st) ==
    IF mappers = <<>> THEN st
    ELSE LET mapper == Head(mappers) IN
         IF mapper.dir \notin dirs
         THEN MapperPass(Tail(mappers), dirs, vcrt_size, vcrt_offset, st)
         ELSE MapperPass(Tail(mappers), dirs, vcrt_size,
                         vcrt_offset + map_size(mapper),
                         dup_vcrt(st, SrcVcrt(mapper), mapper,
                                  SrcCommSize(mapper), vcrt_size, vcrt_offset))

\* both passes for communicator c of the given kind, starting from tables T
\* with c's pointers v (vcrt) and lv (local_vcrt); nomem: the allocations
\* of this commit fail
BuildTables(kind, mappers, T, v, lv, nomem) ==
    LET lsize == SumSizes(mappers, LocalDirs)
        lst == MapperPass(mappers, LocalDirs, lsize, 0,
                          [T |-> T, dest |-> IF kind = "intra" THEN v ELSE lv,
                           nomem |-> nomem, wild |-> FALSE])
        v1 == IF kind = "intra" THEN lst.dest ELSE v
        lv1 == IF kind = "intra" THEN lv ELSE lst.dest
        rsize == SumSizes(mappers, RemoteDirs)
        rst == MapperPass(mappers, RemoteDirs, rsize, 0,
                          [lst EXCEPT !.dest = v1])
    IN  [T |-> rst.T, vcrt |-> rst.dest, local_vcrt |-> lv1, wild |-> rst.wild]

(***************************************************************************)
(* Hook chains.                                                            *)
(***************************************************************************)
\* positions at which a chain may stop: 0 (no hook fails) or the position of
\* a client hook; comm_created and comm_destroyed always return MPI_SUCCESS
FailPoints(hooks) ==
    {0} \cup {i \in 1..Len(hooks) :
                 hooks[i].hook_fn \in {"user", "hcoll_comm_create",
                                       "hcoll_comm_destroy"}}

\* one invocation elt->hook_fn(comm, elt->param) and the value it returned
HookCall(elt, ret) == [hook_fn |-> elt.hook_fn, param |-> elt.param, ret |-> ret]

\* a loop that goes on after a non-zero return
Invoked_to_the_end(hooks, fail_at, err) ==
    [i \in 1..Len(hooks) |->
        HookCall(hooks[i], IF i = fail_at THEN err ELSE MPI_SUCCESS)]

\* the invocations of an LL_FOREACH over hooks that leaves the loop at the
\* first non-zero return: the hook at fail_at (if any) returns err
Invoked(hooks, fail_at, err) ==
    [i \in 1..(IF fail_at = 0 THEN Len(hooks) ELSE fail_at) |->
        HookCall(hooks[i], IF i = fail_at THEN err ELSE MPI_SUCCESS)]

\* mpi_errno when the loop is left: the value of the last invocation
ChainErrno(invoked) ==
    IF invoked = <<>> THEN MPI_SUCCESS ELSE invoked[Len(invoked)].ret

Ran(invoked, fn) == \E i \in 1..Len(invoked) : invoked[i].hook_fn = fn

\* comm_created
comm_created(rec) ==
    [rec EXCEPT !.anysource_enabled = TRUE,
                !.eager_thresh = IF @ = 0 THEN -1 ELSE @,
                !.last_ack_rank = -1]

(***************************************************************************)
(* Initial state: nothing registered, nothing committed.                   *)
(***************************************************************************)
CommInit ==
    /\ comm = [c \in Comms |-> EmptyComm]
    /\ vcrts = <<>>
    /\ comm_list = <<>>
    /\ create_hooks = <<>>
    /\ destroy_hooks = <<>>
    /\ initialized = FALSE
    /\ pg_rank \in 0..(NProcs - 1)
    /\ hook_log = <<>>
    /\ reg_log = [create |-> <<>>, destroy |-> <<>>,
                  given |-> HookElt("none", NULL), malloc_failed |-> FALSE,
                  freed |-> <<>>, finalized |-> FALSE]
    /\ last_op = Op("none", NULL, <<>>)
    /\ mpi_errno = MPI_SUCCESS

(***************************************************************************)
(* Inputs of a commit: the mapper lists a caller may have attached.        *)
(***************************************************************************)
Mapper(src, dir, type, mapping) ==
    [src_comm |-> src, dir |-> dir, type |-> type, src_mapping |-> mapping,
     src_mapping_size |-> Len(mapping)]

\* index sequences over a source group of n ranks: the identity over all
\* ranks, the identity over all but the last rank, the reversal of all ranks
IrregularMappings(n) ==
    {[i \in 1..k |-> i - 1] : k \in {n - 1, n} \ {0}}
        \cup {[i \in 1..n |-> n - i]}

\* directions the sanity checks of lines 229-236 accept for source s
SrcDirs(s) ==
    IF comm[s].comm_kind = "intra" THEN {"L2L", "L2R"}
    ELSE {"L2L", "L2R", "R2L", "R2R"}

GroupSize(s, dir) ==
    IF dir \in {"L2L", "L2R"} THEN comm[s].local_size ELSE comm[s].remote_size

MappersOf(s, dir) ==
    {Mapper(s, dir, "DUP", <<>>)}
        \cup {Mapper(s, dir, "IRREGULAR", m) : m \in IrregularMappings(GroupSize(s, dir))}

\* live communicators a new communicator may be derived from
Sources(c) ==
    {s \in Comms \ {c, comm_self, icomm_world} : comm[s].state = "committed"}

PassMappers(c, dirs) ==
    UNION {UNION {MappersOf(s, d) : d \in dirs \cap SrcDirs(s)} : s \in Sources(c)}

SeqsUpTo(S, n) == UNION {[1..k -> S] : k \in 1..n}

\* an intra-communicator has mappers for its one table; an
\* inter-communicator has at least one for each of its two tables
MapperLists(c, kind) ==
    IF kind = "intra"
    THEN SeqsUpTo(PassMappers(c, LocalDirs), MaxMappers)
    ELSE {l \o r : l \in SeqsUpTo(PassMappers(c, LocalDirs), MaxMappers - 1),
                   r \in SeqsUpTo(PassMappers(c, RemoteDirs), MaxMappers - 1)}

(***************************************************************************)
(* MPIDI_CH3U_Comm_register_create_hook / _destroy_hook, Comm_init.        *)
(***************************************************************************)
\* a registration that links its entry whether or not it was allocated
register_create_hook_links_anyway(hooks, hook_fn, param, malloc_ok) ==
    [hooks |-> LL_PREPEND(hooks, HookElt(hook_fn, param)),
     mpi_errno |-> IF malloc_ok THEN MPI_SUCCESS ELSE MPI_ERR_OTHER]

\* lines 386-408; malloc_ok is the outcome of MPIR_CHKPMEM_MALLOC, whose
\* failure sets mpi_errno and jumps to fn_fail
register_create_hook(hooks, hook_fn, param, malloc_ok) ==
    IF malloc_ok
    THEN [hooks |-> LL_PREPEND(hooks, HookElt(hook_fn, param)),
          mpi_errno |-> MPI_SUCCESS]
    ELSE [hooks |-> hooks, mpi_errno |-> MPI_ERR_OTHER]

\* lines 410-431
register_destroy_hook(hooks, hook_fn, param, malloc_ok) ==
    IF malloc_ok
    THEN [hooks |-> LL_PREPEND(hooks, HookElt(hook_fn, param)),
          mpi_errno |-> MPI_SUCCESS]
    ELSE [hooks |-> hooks, mpi_errno |-> MPI_ERR_OTHER]

\* both registrations of the module's own hooks succeed
MPIDI_CH3I_Comm_init ==
    /\ ~initialized
    /\ initialized' = TRUE
    /\ create_hooks' =
          register_create_hook(create_hooks, "comm_created", NULL, TRUE).hooks
    /\ destroy_hooks' =
          register_destroy_hook(destroy_hooks, "comm_destroyed", NULL, TRUE).hooks
    /\ reg_log' = [create |-> Append(reg_log.create, HookElt("comm_created", NULL)),
                   destroy |-> Append(reg_log.destroy, HookElt("comm_destroyed", NULL)),
                   given |-> HookElt("comm_destroyed", NULL),
                   malloc_failed |-> FALSE,
                   freed |-> reg_log.freed, finalized |-> reg_log.finalized]
    /\ mpi_errno' = MPI_SUCCESS
    /\ hook_log' = <<>>
    /\ last_op' = Op("init", NULL, <<>>)
    /\ UNCHANGED <<comm, vcrts, comm_list, pg_rank>>

\* lines 52-112 as built with HAVE_HCOLL: the hcoll hooks are registered
\* between comm_created and comm_destroyed (lines 95-98); the environment
\* calls of lines 70-92 succeed
MPIDI_CH3I_Comm_init_hcoll ==
    LET c1 == register_create_hook(create_hooks, "comm_created", NULL, TRUE).hooks
        c2 == register_create_hook(c1, "hcoll_comm_create", NULL, TRUE).hooks
        d1 == register_destroy_hook(destroy_hooks, "hcoll_comm_destroy", NULL, TRUE).hooks
        d2 == register_destroy_hook(d1, "comm_destroyed", NULL, TRUE).hooks
    IN
    /\ ~initialized
    /\ initialized' = TRUE
    /\ create_hooks' = c2
    /\ destroy_hooks' = d2
    /\ reg_log' = [reg_log EXCEPT
                      !.create = @ \o <<HookElt("comm_created", NULL),
                                        HookElt("hcoll_comm_create", NULL)>>,
                      !.destroy = @ \o <<HookElt("hcoll_comm_destroy", NULL),
                                         HookElt("comm_destroyed", NULL)>>,
                      !.given = HookElt("comm_destroyed", NULL),
                      !.malloc_failed = FALSE]
    /\ mpi_errno' = MPI_SUCCESS
    /\ hook_log' = <<>>
    /\ last_op' = Op("init", NULL, <<>>)
    /\ UNCHANGED <<comm, vcrts, comm_list, pg_rank>>

\* hooks are registered while the module initialises, before any commit
NoCommitYet == \A c \in Comms : comm[c].state = "uncommitted"

MPIDI_CH3U_Comm_register_create_hook ==
    \E h \in UserHooks, malloc_ok \in BOOLEAN :
        LET r == register_create_hook(create_hooks, h.hook_fn, h.param, malloc_ok)
        IN
        /\ NoCommitYet
        /\ \A i \in 1..Len(create_hooks) : create_hooks[i] # h
        /\ create_hooks' = r.hooks
        /\ reg_log' = [reg_log EXCEPT
                          !.create = IF malloc_ok THEN Append(@, h) ELSE @,
                          !.given = h,
                          !.malloc_failed = ~malloc_ok]
        /\ mpi_errno' = r.mpi_errno
        /\ hook_log' = <<>>
        /\ last_op' = Op("register_create", NULL, <<>>)
        /\ UNCHANGED <<comm, vcrts, comm_list, destroy_hooks, initialized, pg_rank>>

MPIDI_CH3U_Comm_register_destroy_hook ==
    \E h \in UserHooks, malloc_ok \in BOOLEAN :
        LET r == register_destroy_hook(destroy_hooks, h.hook_fn, h.param, malloc_ok)
        IN
        /\ NoCommitYet
        /\ \A i \in 1..Len(destroy_hooks) : destroy_hooks[i] # h
        /\ destroy_hooks' = r.hooks
        /\ reg_log' = [reg_log EXCEPT
                          !.destroy = IF malloc_ok THEN Append(@, h) ELSE @,
                          !.given = h,
                          !.malloc_failed = ~malloc_ok]
        /\ mpi_errno' = r.mpi_errno
        /\ hook_log' = <<>>
        /\ last_op' = Op("register_destroy", NULL, <<>>)
        /\ UNCHANGED <<comm, vcrts, comm_list, create_hooks, initialized, pg_rank>>

(***************************************************************************)
(* register_hook_finalize.                                                 *)
(***************************************************************************)
\* LL_DELETE(head, tail, elt): unlink the entry at position i
LL_DELETE(list, i) == SubSeq(list, 1, i - 1) \o SubSeq(list, i + 1, Len(list))

RECURSIVE FreeHooks(_, _)
\* one LL_FOREACH_SAFE loop of lines 440-443 or 445-448: every entry is
\* unlinked and handed to MPL_free
FreeHooks(list, freed) ==
    IF list = <<>> THEN [list |-> list, freed |-> freed]
    ELSE FreeHooks(LL_DELETE(list, 1), Append(freed, Head(list)))

\* a finalize that forgets the destroy hooks
register_hook_finalize_create_only(chooks, dhooks) ==
    [create |-> FreeHooks(chooks, <<>>).list, destroy |-> dhooks,
     freed |-> FreeHooks(chooks, <<>>).freed]

\* lines 433-452: both loops, the create hooks first
register_hook_finalize(chooks, dhooks) ==
    LET c == FreeHooks(chooks, <<>>)
        d == FreeHooks(dhooks, c.freed)
    IN  [create |-> c.list, destroy |-> d.list, freed |-> d.freed]

\* the finalize callback installed at line 61 runs, once
Call_finalize_callbacks ==
    LET r == register_hook_finalize(create_hooks, destroy_hooks) IN
    /\ initialized
    /\ ~reg_log.finalized
    /\ create_hooks' = r.create
    /\ destroy_hooks' = r.destroy
    /\ reg_log' = [reg_log EXCEPT !.create = <<>>, !.destroy = <<>>,
                                  !.freed = r.freed, !.finalized = TRUE]
    /\ mpi_errno' = MPI_SUCCESS
    /\ hook_log' = <<>>
    /\ last_op' = Op("finalize", NULL, <<>>)
    /\ UNCHANGED <<comm, vcrts, comm_list, initialized, pg_rank>>

(***************************************************************************)
(* MPIDI_CH3I_Comm_commit_pre_hook.                                        *)
(***************************************************************************)
\* a process group whose every slot holds the endpoint of rank 0
PgEndpoint_first(p) == 0

\* MPIDI_Process.my_pg->vct[p]: the endpoint of rank p of the process group,
\* named by its rank
PgEndpoint(p) == p

\* lines 185-221: the bootstrap communicators; rec is the communicator as
\* its caller constructed it; the result is [T, rec, failed], failed when
\* MPIDI_VCRT_Create returned an error (lines 190-194, 206-211)
BootstrapPart(c, rec, T, nomem) ==
    IF c = comm_world /\ nomem
    THEN [T |-> T, failed |-> TRUE,
          rec |-> [rec EXCEPT !.rank = pg_rank, !.remote_size = NProcs,
                              !.local_size = NProcs]]
    ELSE IF c = comm_self /\ nomem
    THEN [T |-> T, failed |-> TRUE,
          rec |-> [rec EXCEPT !.rank = 0, !.remote_size = 1, !.local_size = 1]]
    ELSE IF c = comm_world
    THEN LET T1 == VCRT_Create(T, NProcs)
             h == Len(T) + 1
         IN [T |-> [T1 EXCEPT ![h].vcr_table = [p \in 1..NProcs |-> PgEndpoint(p - 1)]],
             failed |-> FALSE,
             rec |-> [rec EXCEPT !.rank = pg_rank, !.remote_size = NProcs,
                                 !.local_size = NProcs, !.vcrt = h]]
    ELSE IF c = comm_self
    THEN LET T1 == VCRT_Create(T, 1)
             h == Len(T) + 1
         IN [T |-> [T1 EXCEPT ![h].vcr_table = <<PgEndpoint(pg_rank)>>],
             failed |-> FALSE,
             rec |-> [rec EXCEPT !.rank = 0, !.remote_size = 1,
                                 !.local_size = 1, !.vcrt = h]]
    ELSE IF c = icomm_world
    THEN [T |-> VCRT_Add_ref(T, comm[comm_world].vcrt), failed |-> FALSE,
          rec |-> [rec EXCEPT !.rank = pg_rank, !.remote_size = NProcs,
                              !.local_size = NProcs,
                              !.vcrt = comm[comm_world].vcrt]]
    ELSE [T |-> T, failed |-> FALSE, rec |-> rec]

\* sanity checks that leave out the test on the destination's kind
SanityChecks_source_only(rec, mapper_head) ==
    \A i \in 1..Len(mapper_head) :
        comm[mapper_head[i].src_comm].comm_kind = "intra" =>
            mapper_head[i].dir \in {"L2L", "L2R"}

\* the sanity checks of lines 229-236 on the mappers of communicator rec
SanityChecks(rec, mapper_head) ==
    \A i \in 1..Len(mapper_head) :
        /\ comm[mapper_head[i].src_comm].comm_kind = "intra" =>
              mapper_head[i].dir \in {"L2L", "L2R"}
        /\ rec.comm_kind = "intra" => mapper_head[i].dir \in {"L2L", "R2L"}

\* MPIR_Assertp fails: the process stops with communicator c as constructed;
\* nothing else has been touched
AssertionFailed(c, rec, mapper_head) ==
    /\ comm' = [comm EXCEPT ![c] = [rec EXCEPT !.state = "asserted"]]
    /\ last_op' = Op("assertion_failed", c, mapper_head)
    /\ UNCHANGED <<vcrts, comm_list, create_hooks, destroy_hooks, initialized,
                   pg_rank, hook_log, reg_log, mpi_errno>>

\* the process has been stopped by an assertion
Aborted == last_op.op = "assertion_failed"

\* the test of lines 321-323
HasCompanion(rec) == rec.comm_kind = "inter" /\ rec.local_comm # NULL

\* an alias that takes no reference
CompanionAlias_no_ref(T, rec, local_vcrt) == T

\* line 325: the reference the companion's alias takes on the local table
CompanionAlias(T, rec, local_vcrt) ==
    IF HasCompanion(rec) THEN VCRT_Add_ref(T, local_vcrt) ELSE T

\* the memory outcome of a commit: whether the MPIDI_VCRT_Create calls it
\* makes fail and, if a store then goes through a table never allocated,
\* what becomes of it: the process faults, or the store lands somewhere and
\* the commit goes on
MemOutcomes == [nomem : BOOLEAN, ub : {"fault", "continue"}]
NoFailure == [nomem |-> FALSE, ub |-> "fault"]

\* the process has ended, or runs on memory it has damaged
OutOfMemory == last_op.op \in {"commit_nomem", "commit_wild", "commit_fault"}

\* MPIR_ERR_SETANDJUMP1 of lines 192 and 209: nothing after the failed
\* allocation runs, the error is returned
CreateFailed(c, rec, mapper_head) ==
    /\ comm' = [comm EXCEPT ![c] = [rec EXCEPT !.state = "commit_failed"]]
    /\ mpi_errno' = MPI_ERR_OTHER
    /\ hook_log' = <<>>
    /\ last_op' = Op("commit_nomem", c, mapper_head)
    /\ UNCHANGED <<vcrts, comm_list, create_hooks, destroy_hooks, initialized,
                   pg_rank, reg_log>>

\* a store through a table never allocated stops the process; the
\* references the passes took are still held
Faulted(c, rec, mapper_head, T) ==
    /\ comm' = [comm EXCEPT ![c] = [rec EXCEPT !.state = "faulted"]]
    /\ vcrts' = T
    /\ last_op' = Op("commit_fault", c, mapper_head)
    /\ UNCHANGED <<comm_list, create_hooks, destroy_hooks, initialized,
                   pg_rank, hook_log, reg_log, mpi_errno>>

\* the whole hook: sanity checks, tables, companion alias (lines 321-327),
\* create hooks (lines 329-332); fail_at / err are the outcome of the hook
\* functions, mem the outcome of the allocations
commit_pre_hook(c, rec, mapper_head, fail_at, err, mem) ==
    IF ~SanityChecks(rec, mapper_head) THEN AssertionFailed(c, rec, mapper_head)
    ELSE
    LET boot == BootstrapPart(c, rec, vcrts, mem.nomem)
        built == BuildTables(rec.comm_kind, mapper_head, boot.T,
                             boot.rec.vcrt, boot.rec.local_vcrt, mem.nomem)
        companion == HasCompanion(rec)
        T2 == CompanionAlias(built.T, rec, built.local_vcrt)
        invoked == Invoked(create_hooks, fail_at, err)
        rec2 == [boot.rec EXCEPT !.vcrt = built.vcrt,
                                 !.local_vcrt = built.local_vcrt,
                                 !.state = IF ChainErrno(invoked) = MPI_SUCCESS
                                           THEN "committed"
                                           ELSE "commit_failed"]
        rec3 == IF Ran(invoked, "comm_created") THEN comm_created(rec2) ELSE rec2
    IN  IF boot.failed THEN CreateFailed(c, boot.rec, mapper_head)
        ELSE IF built.wild /\ mem.ub = "fault"
        THEN Faulted(c, boot.rec, mapper_head, built.T)
        ELSE
        /\ vcrts' = T2
        /\ comm' = IF companion
                   THEN [comm EXCEPT ![c] = rec3,
                                     ![rec.local_comm].vcrt = built.local_vcrt,
                                     ![rec.local_comm].state = "aliased",
                                     ![rec.local_comm].local_size = rec.local_size,
                                     ![rec.local_comm].remote_size = rec.local_size]
                   ELSE [comm EXCEPT ![c] = rec3]
        /\ comm_list' = IF Ran(invoked, "comm_created")
                        THEN COMM_ADD(comm_list, c) ELSE comm_list
        /\ hook_log' = invoked
        /\ mpi_errno' = ChainErrno(invoked)
        /\ last_op' = Op(IF built.wild THEN "commit_wild" ELSE "commit",
                         c, mapper_head)
        /\ UNCHANGED <<create_hooks, destroy_hooks, initialized, pg_rank, reg_log>>

\* commit of comm_world, comm_self or icomm_world (no mappers)
CommitBootstrap ==
    \E c \in BootComms :
        /\ initialized
        /\ comm[c].state = "uncommitted"
        /\ c = icomm_world => comm[comm_world].state = "committed"
        /\ \E fail_at \in FailPoints(create_hooks) :
             \E err \in IF fail_at = 0 THEN {MPI_SUCCESS} ELSE ErrCodes :
                commit_pre_hook(c, comm[c], <<>>, fail_at, err, NoFailure)

\* a communicator as its caller constructed it from a mapper list
Constructed(kind, mappers, lc) ==
    [EmptyComm EXCEPT
        !.comm_kind = kind, !.local_comm = lc,
        !.local_size = SumSizes(mappers, LocalDirs),
        !.remote_size = IF kind = "intra" THEN SumSizes(mappers, LocalDirs)
                        ELSE SumSizes(mappers, RemoteDirs)]

Companions(c, kind) ==
    IF kind = "intra" THEN {NULL}
    ELSE {NULL} \cup ({c + 1} \cap GenComms)

\* commit of a communicator derived from live communicators by mappers
CommitMapped ==
    \E c \in GenComms :
        /\ initialized
        /\ comm[c].state = "uncommitted"
        /\ \A b \in BootComms : comm[b].state = "committed"
        /\ \A g \in GenComms : g < c => comm[g].state # "uncommitted"
        /\ \E kind \in {"intra", "inter"} :
             \E mappers \in MapperLists(c, kind), lc \in Companions(c, kind) :
               \E fail_at \in FailPoints(create_hooks) :
                 \E err \in IF fail_at = 0 THEN {MPI_SUCCESS} ELSE ErrCodes :
                    commit_pre_hook(c, Constructed(kind, mappers, lc), mappers,
                                    fail_at, err, NoFailure)

\* mappers of every direction, whatever the kinds: whole-group duplication
\* and the one-element mapping of rank 0
AnyDirMappers(c) ==
    UNION {{Mapper(s, d, "DUP", <<>>), Mapper(s, d, "IRREGULAR", <<0>>)} :
              s \in Sources(c), d \in LocalDirs \cup RemoteDirs}

\* mapper lists a caller may attach without regard to direction rules; a
\* list the checks accept has a mapper for every table of the communicator
UncheckedLists(c, kind) ==
    {ml \in SeqsUpTo(AnyDirMappers(c), MaxMappers) :
        kind = "inter" =>
            \/ \E i \in 1..Len(ml) : comm[ml[i].src_comm].comm_kind = "intra"
                                        /\ ml[i].dir \notin {"L2L", "L2R"}
            \/ /\ \E i \in 1..Len(ml) : ml[i].dir \in LocalDirs
               /\ \E i \in 1..Len(ml) : ml[i].dir \in RemoteDirs}

\* commit of a communicator whose caller attached mappers of any direction
CommitUnchecked ==
    \E c \in GenComms :
        /\ initialized
        /\ comm[c].state = "uncommitted"
        /\ \A b \in BootComms : comm[b].state = "committed"
        /\ \A g \in GenComms : g < c => comm[g].state # "uncommitted"
        /\ \E kind \in {"intra", "inter"} :
             \E mappers \in UncheckedLists(c, kind) :
                commit_pre_hook(c, Constructed(kind, mappers, NULL), mappers,
                                0, MPI_SUCCESS, NoFailure)

\* a commit during which MPIDI_VCRT_Create fails: comm_world, comm_self or a
\* communicator built from mappers of which one needs a table of its own
\* (no companion communicator is attached)
CommitNoMemory ==
    \E c \in {comm_world, comm_self} \cup GenComms :
        /\ initialized
        /\ comm[c].state = "uncommitted"
        /\ c \in GenComms => \A b \in BootComms : comm[b].state = "committed"
        /\ \A g \in GenComms : g < c => comm[g].state # "uncommitted"
        /\ \E ub \in {"fault", "continue"} :
             \E fail_at \in FailPoints(create_hooks) :
               \E err \in IF fail_at = 0 THEN {MPI_SUCCESS} ELSE ErrCodes :
                 IF c \in BootComms
                 THEN commit_pre_hook(c, comm[c], <<>>, fail_at, err,
                                      [nomem |-> TRUE, ub |-> ub])
                 ELSE \E kind \in {"intra", "inter"} :
                        \E mappers \in MapperLists(c, kind) :
                          commit_pre_hook(c, Constructed(kind, mappers, NULL),
                                          mappers, fail_at, err,
                                          [nomem |-> TRUE, ub |-> ub])
        /\ last_op'.op # "commit"

(***************************************************************************)
(* MPIDI_CH3I_Comm_destroy_hook.                                           *)
(***************************************************************************)
comm_destroyed(list, c) == COMM_DEL(list, c)

\* a destroy that releases the vcrt reference twice
ReleaseTables_twice(T, rec) == VCRT_Release(VCRT_Release(T, rec.vcrt), rec.vcrt)

\* a destroy that releases the vcrt reference only
ReleaseTables_vcrt_only(T, rec) == VCRT_Release(T, rec.vcrt)

\* tables after the releases of lines 362-368
ReleaseTables(T, rec) ==
    LET T1 == VCRT_Release(T, rec.vcrt) IN
    IF rec.comm_kind = "inter" THEN VCRT_Release(T1, rec.local_vcrt) ELSE T1

\* MPIDI_VCRT_Release returning an error: the table keeps its references
VCRT_Release_failed(T, h) == T

\* the points at which a release may fail: 0 nowhere, 1 the release of vcrt,
\* 2 the release of local_vcrt
ReleaseFailPoints(rec) == IF rec.comm_kind = "inter" THEN 0..2 ELSE 0..1

\* releases that go on to local_vcrt after the release of vcrt failed
ReleaseUntil_goes_on(T, rec, rel_fail) ==
    LET T1 == IF rel_fail = 1 THEN VCRT_Release_failed(T, rec.vcrt)
              ELSE VCRT_Release(T, rec.vcrt) IN
    IF rec.comm_kind = "inter" /\ rel_fail # 2
    THEN VCRT_Release(T1, rec.local_vcrt) ELSE T1

\* tables after lines 362-368 when the release at rel_fail returns an error:
\* MPIR_ERR_CHECK leaves the function there
ReleaseUntil(T, rec, rel_fail) ==
    IF rel_fail = 0 THEN ReleaseTables(T, rec)
    ELSE IF rel_fail = 1 THEN VCRT_Release_failed(T, rec.vcrt)
    ELSE VCRT_Release_failed(VCRT_Release(T, rec.vcrt), rec.local_vcrt)

destroy_hook(c, fail_at, err, rel_fail) ==
    LET invoked == Invoked(destroy_hooks, fail_at, err) IN
    /\ hook_log' = invoked
    /\ comm_list' = IF Ran(invoked, "comm_destroyed")
                    THEN comm_destroyed(comm_list, c) ELSE comm_list
    /\ last_op' = Op(CASE rel_fail = 0 -> "destroy"
                       [] rel_fail = 1 -> "destroy_vcrt_failed"
                       [] OTHER -> "destroy_local_vcrt_failed", c, <<>>)
    /\ IF ChainErrno(invoked) # MPI_SUCCESS
       THEN /\ mpi_errno' = ChainErrno(invoked)
            /\ UNCHANGED <<vcrts, comm>>
       ELSE /\ vcrts' = ReleaseUntil(vcrts, comm[c], rel_fail)
            /\ mpi_errno' = IF rel_fail = 0 THEN MPI_SUCCESS ELSE err
            /\ comm' = IF rel_fail = 0
                       THEN [comm EXCEPT ![c] = DestroyedComm]
                       ELSE [comm EXCEPT ![c].state = "destroy_failed"]
    /\ UNCHANGED <<create_hooks, destroy_hooks, initialized, pg_rank, reg_log>>

Destroy ==
    \E c \in Comms :
        /\ comm[c].state \in {"committed", "commit_failed", "aliased"}
        /\ \E fail_at \in FailPoints(destroy_hooks) :
             \E err \in IF fail_at = 0 THEN {MPI_SUCCESS} ELSE ErrCodes :
                destroy_hook(c, fail_at, err, 0)

\* a destroy whose hooks succeed and one of whose releases returns an error
DestroyReleaseFails ==
    \E c \in Comms :
        /\ comm[c].state = "committed"
        /\ \E rel_fail \in ReleaseFailPoints(comm[c]) \ {0} :
             \E err \in ErrCodes \ {MPI_SUCCESS} :
                destroy_hook(c, 0, err, rel_fail)

(***************************************************************************)
(* nonempty_intersection and MPIDI_CH3I_Comm_handle_failed_procs.          *)
(***************************************************************************)
\* groups of failed processes a notification may carry, the empty one included
FailedGroups == SUBSET (0..(NProcs - 1))

\* MPIDI_Comm_get_vc(comm, i_c): the endpoint of rank i_c of communicator c
Comm_get_vc(c, i_c) == vcrts[comm[c].vcrt].vcr_table[i_c + 1]

\* a test that searches comm_world and icomm_world like any communicator
nonempty_intersection_searches(c, group) ==
    \E lpid \in group : \E i_c \in 0..(comm[c].remote_size - 1) :
        lpid = Comm_get_vc(c, i_c)

\* the flag nonempty_intersection computes for communicator c and group
nonempty_intersection(c, group) ==
    IF c = comm_world \/ c = icomm_world THEN TRUE
    ELSE \E lpid \in group : \E i_c \in 0..(comm[c].remote_size - 1) :
            lpid = Comm_get_vc(c, i_c)

\* a scan that sets the flag of every live communicator from the group of
\* this notification alone
DisableAnysource_recomputes(group) ==
    [c \in Comms |->
        IF \E i \in 1..Len(comm_list) : comm_list[i] = c
        THEN [comm[c] EXCEPT !.anysource_enabled = ~nonempty_intersection(c, group)]
        ELSE comm[c]]

\* the registry after COMM_FOREACH of lines 541-556 over comm_list
DisableAnysource(group) ==
    [c \in Comms |->
        IF /\ \E i \in 1..Len(comm_list) : comm_list[i] = c
           /\ comm[c].anysource_enabled
           /\ nonempty_intersection(c, group)
        THEN [comm[c] EXCEPT !.anysource_enabled = FALSE]
        ELSE comm[c]]

\* MPIDI_CH3_Progress_signal_completion: one more completion is signalled to
\* the progress engine
MPIDI_CH3_Progress_signal_completion(n) == n + 1

\* a notification that signals only when it disabled any-source somewhere
SignalCompletion_on_change(group) ==
    IF DisableAnysource(group) # comm
    THEN MPIDI_CH3_Progress_signal_completion(0)
    ELSE 0

\* the signals a notification of `group' raises: nonempty_intersection never
\* fails, so the loop always falls through to the one call after it
SignalCompletion(group) == MPIDI_CH3_Progress_signal_completion(0)

MPIDI_CH3I_Comm_handle_failed_procs ==
    \E group \in FailedGroups :
        /\ initialized
        /\ comm' = DisableAnysource(group)
        /\ new_failed_procs' = group
        /\ progress_signal' = SignalCompletion(group)
        /\ mpi_errno' = MPI_SUCCESS
        /\ hook_log' = <<>>
        /\ last_op' = Op("handle_failed_procs", NULL, <<>>)
        /\ UNCHANGED <<vcrts, comm_list, create_hooks, destroy_hooks,
                       initialized, pg_rank, reg_log>>

FailIdle ==
    /\ new_failed_procs = {}
    /\ progress_signal = 0

(***************************************************************************)
(* igather.c: configuration, arguments and the callees outside the file.   *)
(***************************************************************************)
igVars == <<cvar, args, ig_pc, res, peer>>

Thresholds == {2 * i : i \in 1..MaxThreshold}

CvarValues ==
    [DEVICE_COLLECTIVES : {"all", "percoll", "none"},
     IGATHER_DEVICE_COLLECTIVE : BOOLEAN,
     IGATHER_INTRA_ALGORITHM : {"auto", "sched_auto", "sched_binomial", "gentran_tree"},
     IGATHER_INTER_ALGORITHM : {"auto", "sched_auto", "sched_long", "sched_short"},
     IGATHER_TREE_KVAL : 2..MaxK,
     GATHER_INTER_SHORT_MSG_SIZE : Thresholds]

\* the defaults of the CVAR block, lines 12-63; the device-collectives policy
\* and the threshold are declared in other files and take a value of their range
CvarDefault ==
    [DEVICE_COLLECTIVES |-> "percoll", IGATHER_DEVICE_COLLECTIVE |-> TRUE,
     IGATHER_INTRA_ALGORITHM |-> "auto", IGATHER_INTER_ALGORITHM |-> "auto",
     IGATHER_TREE_KVAL |-> 2, GATHER_INTER_SHORT_MSG_SIZE |-> 2]

\* validated arguments: an intra-communicator call names a rank as root and
\* has one group; an inter-communicator call names MPI_ROOT, MPI_PROC_NULL
\* or a rank of the remote group
ArgValues ==
    {a \in [comm_kind : {"intra", "inter"}, root : {MPI_PROC_NULL, MPI_ROOT, 0},
            sendcount : 1..MaxCount, sendtype_size : 1..MaxSize,
            recvcount : 1..MaxCount, recvtype_size : 1..MaxSize,
            local_size : 1..MaxGroup, remote_size : 1..MaxGroup] :
        a.comm_kind = "intra" => (a.root = 0 /\ a.remote_size = a.local_size)}

ArgsIdle ==
    [comm_kind |-> "intra", root |-> 0, sendcount |-> 1, sendtype_size |-> 1,
     recvcount |-> 1, recvtype_size |-> 1, local_size |-> 1, remote_size |-> 1]

\* containers MPIR_Csel_search may return: NULL, one of the six Igather
\* algorithms of lines 91-121 (the tree one with its arity), or another id
Containers ==
    {[id |-> "NULL", k |-> 0], [id |-> "other", k |-> 0]}
      \cup {[id |-> i, k |-> 0] :
              i \in {"intra_sched_auto", "intra_sched_binomial", "inter_sched_auto",
                     "inter_sched_long", "inter_sched_short"}}
      \cup {[id |-> "intra_gentran_tree", k |-> k] : k \in 2..MaxK}

\* what the callees outside igather.c do in one call: the error code of the
\* algorithm or device entry point, the container of the cost model, and
\* whether a failing device entry point wrote the request handle
Outcomes ==
    [alg_err : {MPI_SUCCESS} \cup ErrCodes, cnt : Containers, dev_writes : BOOLEAN]

\* the cnt field of a result when MPIR_Csel_search was not called
NoContainer == [id |-> "none", k |-> 0]

\* what the innermost callee outside igather.c handed back: its error code
\* and the request handle as it left it
Leaf(err, req) == [err |-> err, request |-> req]

\* result of a call: functions entered in call order, algorithms whose steps
\* were emitted into the schedule, the tree arity used, the error code and
\* request handle returned, the handle's value when the dispatch target was
\* entered, whether an assertion stopped the process, and the leaf's answer
Result(calls, sched, k, mpi_err, request, at_dispatch, asserted, leaf) ==
    [calls |-> calls, sched |-> sched, k |-> k, mpi_errno |-> mpi_err,
     request |-> request, req_at_dispatch |-> at_dispatch, asserted |-> asserted,
     leaf |-> leaf, cnt |-> NoContainer]

ResIdle ==
    Result(<<>>, <<>>, 0, MPI_SUCCESS, "stale", "stale", FALSE,
           Leaf(MPI_SUCCESS, "stale"))

\* an outcome of a schedule builder: functions entered, steps emitted, error
Ret(calls, sched, mpi_err, leaf) ==
    [calls |-> calls, sched |-> sched, mpi_errno |-> mpi_err, leaf |-> leaf]

\* a schedule-based algorithm outside igather.c: emits its steps, returns o.alg_err
SchedAlgorithm(name, o) ==
    Ret(<<name>>, <<name>>, o.alg_err, Leaf(o.alg_err, "none"))

(***************************************************************************)
(* igather.c, lines 133-204: the sched_auto functions.                     *)
(***************************************************************************)
\* an intra_sched_auto that reports success whatever the algorithm returned
MPIR_Igather_intra_sched_auto_swallows(a, o) ==
    LET r == SchedAlgorithm("intra_sched_binomial", o) IN
    Ret(<<"intra_sched_auto">> \o r.calls, r.sched, MPI_SUCCESS, r.leaf)

MPIR_Igather_intra_sched_auto(a, o) ==
    LET r == SchedAlgorithm("intra_sched_binomial", o) IN
    Ret(<<"intra_sched_auto">> \o r.calls, r.sched, r.mpi_errno, r.leaf)

\* an nbytes that takes the sending side's formula on every rank
Nbytes_send_side(a) == a.sendtype_size * a.sendcount * a.local_size

\* an nbytes that multiplies by the size of the caller's own group on both
\* sides
Nbytes_own_group(a) ==
    IF a.root = MPI_ROOT
    THEN a.recvtype_size * a.recvcount * a.local_size
    ELSE a.sendtype_size * a.sendcount * a.local_size

\* nbytes of lines 166-173
Nbytes(a) ==
    IF a.root = MPI_ROOT
    THEN a.recvtype_size * a.recvcount * a.remote_size
    ELSE a.sendtype_size * a.sendcount * a.local_size

\* an inter_sched_auto without the test of lines 158-161
MPIR_Igather_inter_sched_auto_no_sentinel(a, thr, o) ==
    LET r == IF Nbytes(a) < thr
             THEN SchedAlgorithm("inter_sched_short", o)
             ELSE SchedAlgorithm("inter_sched_long", o)
    IN  Ret(<<"inter_sched_auto">> \o r.calls, r.sched, r.mpi_errno, r.leaf)

MPIR_Igather_inter_sched_auto(a, thr, o) ==
    IF a.root = MPI_PROC_NULL
    THEN Ret(<<"inter_sched_auto">>, <<>>, MPI_SUCCESS, Leaf(MPI_SUCCESS, "none"))
    ELSE LET r == IF Nbytes(a) < thr
                  THEN SchedAlgorithm("inter_sched_short", o)
                  ELSE SchedAlgorithm("inter_sched_long", o)
         IN  Ret(<<"inter_sched_auto">> \o r.calls, r.sched, r.mpi_errno, r.leaf)

\* a sched_auto that takes the intra-communicator branch for every kind
MPIR_Igather_sched_auto_always_intra(a, thr, o) ==
    LET r == MPIR_Igather_intra_sched_auto(a, o)
    IN  Ret(<<"sched_auto">> \o r.calls, r.sched, r.mpi_errno, r.leaf)

MPIR_Igather_sched_auto(a, thr, o) ==
    LET r == IF a.comm_kind = "intra"
             THEN MPIR_Igather_intra_sched_auto(a, o)
             ELSE MPIR_Igather_inter_sched_auto(a, thr, o)
    IN  Ret(<<"sched_auto">> \o r.calls, r.sched, r.mpi_errno, r.leaf)

(***************************************************************************)
(* MPII_SCHED_WRAPPER and the algorithms that manage their own request.    *)
(***************************************************************************)
\* build a schedule with fn, start it and return its request; an error of
\* fn is returned and leaves the request as impl initialised it
MPII_SCHED_WRAPPER(r) ==
    Result(r.calls, r.sched, 0, r.mpi_errno,
           IF r.mpi_errno = MPI_SUCCESS THEN "sched_request" ELSE "none",
           "none", FALSE, r.leaf)

\* MPIR_Igather_intra_gentran_tree(..., k, request)
GentranTree(k, o) ==
    LET req == IF o.alg_err = MPI_SUCCESS THEN "gentran_request" ELSE "none" IN
    Result(<<"intra_gentran_tree">>, <<>>, k, o.alg_err, req,
           "none", FALSE, Leaf(o.alg_err, req))

\* an assertion that lets the call go on and return
AssertFail_ignored(calls) ==
    Result(calls, <<>>, 0, MPI_SUCCESS, "none", "none", FALSE,
           Leaf(MPI_SUCCESS, "none"))

\* MPIR_Assert(cnt) / MPIR_Assert(0): the process aborts, nothing returns
AssertFail(calls) ==
    Result(calls, <<>>, 0, MPI_SUCCESS, "none", "none", TRUE,
           Leaf(MPI_SUCCESS, "none"))

\* r with the functions entered before it put in front
Entered(calls, r) == [r EXCEPT !.calls = calls \o @]

(***************************************************************************)
(* igather.c, lines 68-131: MPIR_Igather_allcomm_auto.                     *)
(***************************************************************************)
MPIR_Igather_allcomm_auto(cv, a, o) ==
    LET thr == cv.GATHER_INTER_SHORT_MSG_SIZE
        pre == <<"allcomm_auto", "Csel_search">>
        \* the container line 87 obtained, kept with the result
        Searched(r) == [r EXCEPT !.cnt = o.cnt]
    IN
    Searched(
    IF o.cnt.id = "NULL" THEN AssertFail(pre)
    ELSE IF o.cnt.id = "intra_gentran_tree"
    THEN Entered(pre, GentranTree(o.cnt.k, o))
    ELSE IF o.cnt.id = "intra_sched_auto"
    THEN Entered(pre, MPII_SCHED_WRAPPER(MPIR_Igather_intra_sched_auto(a, o)))
    ELSE IF o.cnt.id = "intra_sched_binomial"
    THEN Entered(pre, MPII_SCHED_WRAPPER(SchedAlgorithm("intra_sched_binomial", o)))
    ELSE IF o.cnt.id = "inter_sched_auto"
    THEN Entered(pre, MPII_SCHED_WRAPPER(MPIR_Igather_inter_sched_auto(a, thr, o)))
    ELSE IF o.cnt.id = "inter_sched_long"
    THEN Entered(pre, MPII_SCHED_WRAPPER(SchedAlgorithm("inter_sched_long", o)))
    ELSE IF o.cnt.id = "inter_sched_short"
    THEN Entered(pre, MPII_SCHED_WRAPPER(SchedAlgorithm("inter_sched_short", o)))
    ELSE AssertFail(pre))

(***************************************************************************)
(* igather.c, lines 206-283: MPIR_Igather_impl.                            *)
(***************************************************************************)
\* an impl that reads the intra-communicator CVAR for both kinds
ImplAlgorithm_intra_only(cv, a) == cv.IGATHER_INTRA_ALGORITHM

\* the CVAR each switch of MPIR_Igather_impl reads, lines 220-222 and 249-250
ImplAlgorithm(cv, a) ==
    IF a.comm_kind = "intra" THEN cv.IGATHER_INTRA_ALGORITHM
    ELSE cv.IGATHER_INTER_ALGORITHM

MPIR_Igather_impl(cv, a, o) ==
    LET thr == cv.GATHER_INTER_SHORT_MSG_SIZE
        alg == ImplAlgorithm(cv, a)
        r == IF a.comm_kind = "intra"
             THEN CASE alg = "gentran_tree" ->
                         GentranTree(cv.IGATHER_TREE_KVAL, o)
                    [] alg = "sched_binomial" ->
                         MPII_SCHED_WRAPPER(SchedAlgorithm("intra_sched_binomial", o))
                    [] alg = "sched_auto" ->
                         MPII_SCHED_WRAPPER(MPIR_Igather_intra_sched_auto(a, o))
                    [] alg = "auto" -> MPIR_Igather_allcomm_auto(cv, a, o)
                    [] OTHER -> AssertFail(<<>>)
             ELSE CASE alg = "sched_long" ->
                         MPII_SCHED_WRAPPER(SchedAlgorithm("inter_sched_long", o))
                    [] alg = "sched_short" ->
                         MPII_SCHED_WRAPPER(SchedAlgorithm("inter_sched_short", o))
                    [] alg = "sched_auto" ->
                         MPII_SCHED_WRAPPER(MPIR_Igather_inter_sched_auto(a, thr, o))
                    [] alg = "auto" -> MPIR_Igather_allcomm_auto(cv, a, o)
                    [] OTHER -> AssertFail(<<>>)
    IN  Entered(<<"impl">>, r)

(***************************************************************************)
(* igather.c, lines 285-303: MPIR_Igather, and the device entry point.     *)
(***************************************************************************)
\* MPID_Igather: the device returns its own error code and request; when it
\* fails it may or may not have written the handle it was given
MPID_Igather(req_in, o) ==
    LET req == IF o.alg_err = MPI_SUCCESS THEN "device_request"
               ELSE IF o.dev_writes THEN "none" ELSE req_in
    IN  Result(<<"MPID_Igather">>, <<>>, 0, o.alg_err, req, req_in, FALSE,
               Leaf(o.alg_err, req))

\* a test that ignores the per-collective flag
DeviceOverride_all_only(cv) == cv.DEVICE_COLLECTIVES = "all"

\* the condition of lines 291-293
DeviceOverride(cv) ==
    \/ cv.DEVICE_COLLECTIVES = "all"
    \/ (cv.DEVICE_COLLECTIVES = "percoll" /\ cv.IGATHER_DEVICE_COLLECTIVE)

\* a front end that calls the device and then selects an algorithm as well
MPIR_Igather_device_and_impl(cv, a, req_in, o) ==
    IF DeviceOverride(cv)
    THEN Entered(<<"MPID_Igather">>, MPIR_Igather_impl(cv, a, o))
    ELSE MPIR_Igather_impl(cv, a, o)

MPIR_Igather(cv, a, req_in, o) ==
    IF DeviceOverride(cv) THEN MPID_Igather(req_in, o)
    ELSE MPIR_Igather_impl(cv, a, o)

\* outcomes that differ only in a callee the call never reaches give the
\* same result; one of them is enough
Reached(cv, a, o) ==
    IF DeviceOverride(cv) THEN o.cnt.id = "NULL"
    ELSE /\ ~o.dev_writes
         /\ ImplAlgorithm(cv, a) # "auto" => o.cnt.id = "NULL"

\* one call of the front end; the caller's handle holds a stale value
Igather ==
    /\ ig_pc = "call"
    /\ \E o \in Outcomes :
         /\ Reached(cvar, args, o)
         /\ res' = MPIR_Igather(cvar, args, "stale", o)
    /\ ig_pc' = "done"
    /\ UNCHANGED <<cvar, args, peer>>

\* one call of MPIR_Igather_sched_auto by a caller that owns the schedule:
\* no request is involved, the caller's handle stays as it was
Igather_sched_auto ==
    /\ ig_pc = "call"
    /\ \E o \in Outcomes :
         /\ o.cnt.id = "NULL" /\ ~o.dev_writes
         /\ LET r == MPIR_Igather_sched_auto(args, cvar.GATHER_INTER_SHORT_MSG_SIZE, o)
            IN  res' = Result(r.calls, r.sched, 0, r.mpi_errno, "stale", "stale",
                              FALSE, r.leaf)
    /\ ig_pc' = "sched_done"
    /\ UNCHANGED <<cvar, args, peer>>

\* no second process takes part
PeerIdle == [pc |-> "idle", args |-> ArgsIdle, res |-> ResIdle]

IgIdle ==
    /\ cvar = CvarDefault
    /\ args = ArgsIdle
    /\ ig_pc = "idle"
    /\ res = ResIdle
    /\ peer = PeerIdle

IgInit ==
    /\ cvar \in CvarValues
    /\ args \in ArgValues
    /\ ig_pc = "call"
    /\ res = ResIdle
    /\ peer = PeerIdle

\* what MPIR_Igather_sched_auto hands back to a caller that owns the
\* schedule
SchedAutoResult(a, thr, o) ==
    LET r == MPIR_Igather_sched_auto(a, thr, o)
    IN  Result(r.calls, r.sched, 0, r.mpi_errno, "stale", "stale", FALSE, r.leaf)

\* one gather over an inter-communicator seen from two of its processes:
\* the root, whose call names MPI_ROOT, and a rank of the other group, whose
\* call names the root's rank; each sees the other's group as remote
GatherInit ==
    /\ \E t \in Thresholds :
          cvar = [CvarDefault EXCEPT !.GATHER_INTER_SHORT_MSG_SIZE = t]
    /\ args \in {a \in ArgValues : /\ a.comm_kind = "inter" /\ a.root = MPI_ROOT
                                    /\ a.sendcount = 1 /\ a.sendtype_size = 1}
    /\ ig_pc = "call"
    /\ res = ResIdle
    /\ \E pa \in {a \in ArgValues : /\ a.comm_kind = "inter" /\ a.root = 0
                                     /\ a.recvcount = 1 /\ a.recvtype_size = 1} :
          /\ pa.local_size = args.remote_size
          /\ pa.remote_size = args.local_size
          /\ peer = [pc |-> "call", args |-> pa, res |-> ResIdle]

\* the root's call of MPIR_Igather_sched_auto
RootCall ==
    /\ ig_pc = "call"
    /\ \E o \in Outcomes :
         /\ o.cnt.id = "NULL" /\ ~o.dev_writes
         /\ res' = SchedAutoResult(args, cvar.GATHER_INTER_SHORT_MSG_SIZE, o)
    /\ ig_pc' = "sched_done"
    /\ UNCHANGED <<cvar, args, peer>>

\* the remote rank's call of MPIR_Igather_sched_auto
PeerCall ==
    /\ peer.pc = "call"
    /\ \E o \in Outcomes :
         /\ o.cnt.id = "NULL" /\ ~o.dev_writes
         /\ peer' = [peer EXCEPT
                        !.pc = "sched_done",
                        !.res = SchedAutoResult(peer.args,
                                                cvar.GATHER_INTER_SHORT_MSG_SIZE, o)]
    /\ UNCHANGED <<cvar, args, ig_pc, res>>

(***************************************************************************)
(* Specifications.                                                         *)
(***************************************************************************)
Init == CommInit /\ IgIdle /\ FailIdle

vars == <<commVars, igVars, failVars>>

\* communicator registry: commits and destroys with the module's own hooks
Next ==
    \/ MPIDI_CH3I_Comm_init /\ UNCHANGED <<igVars, failVars>>
    \/ CommitBootstrap /\ UNCHANGED <<igVars, failVars>>
    \/ CommitMapped /\ UNCHANGED <<igVars, failVars>>
    \/ Destroy /\ UNCHANGED <<igVars, failVars>>

Spec == Init /\ [][Next]_vars

\* hook chains: client hooks that may fail, on the bootstrap communicators
InitHooks == CommInit /\ IgIdle /\ FailIdle

NextHooks ==
    \/ MPIDI_CH3I_Comm_init /\ UNCHANGED <<igVars, failVars>>
    \/ MPIDI_CH3U_Comm_register_create_hook /\ UNCHANGED <<igVars, failVars>>
    \/ MPIDI_CH3U_Comm_register_destroy_hook /\ UNCHANGED <<igVars, failVars>>
    \/ CommitBootstrap /\ UNCHANGED <<igVars, failVars>>
    \/ Destroy /\ UNCHANGED <<igVars, failVars>>

SpecHooks == InitHooks /\ [][NextHooks]_vars

\* the same with module finalization; nothing registers after it
NextFinalize ==
    \/ MPIDI_CH3I_Comm_init /\ UNCHANGED <<igVars, failVars>>
    \/ /\ ~reg_log.finalized
       /\ MPIDI_CH3U_Comm_register_create_hook
       /\ UNCHANGED <<igVars, failVars>>
    \/ /\ ~reg_log.finalized
       /\ MPIDI_CH3U_Comm_register_destroy_hook
       /\ UNCHANGED <<igVars, failVars>>
    \/ CommitBootstrap /\ UNCHANGED <<igVars, failVars>>
    \/ Destroy /\ UNCHANGED <<igVars, failVars>>
    \/ Call_finalize_callbacks /\ UNCHANGED <<igVars, failVars>>

SpecFinalize == InitHooks /\ [][NextFinalize]_vars

\* the build with HAVE_HCOLL; other modules register their hooks after the
\* module has initialised
NextHcoll ==
    \/ MPIDI_CH3I_Comm_init_hcoll /\ UNCHANGED <<igVars, failVars>>
    \/ /\ initialized
       /\ MPIDI_CH3U_Comm_register_create_hook
       /\ UNCHANGED <<igVars, failVars>>
    \/ /\ initialized
       /\ MPIDI_CH3U_Comm_register_destroy_hook
       /\ UNCHANGED <<igVars, failVars>>
    \/ CommitBootstrap /\ UNCHANGED <<igVars, failVars>>
    \/ Destroy /\ UNCHANGED <<igVars, failVars>>

SpecHcoll == InitHooks /\ [][NextHcoll]_vars

\* destroys that fail in a client hook or in a release, on communicators of
\* both kinds, with at most MaxFailedComms communicators built from mappers
NextRelease ==
    \/ MPIDI_CH3I_Comm_init /\ UNCHANGED <<igVars, failVars>>
    \/ /\ initialized
       /\ MPIDI_CH3U_Comm_register_destroy_hook
       /\ UNCHANGED <<igVars, failVars>>
    \/ CommitBootstrap /\ UNCHANGED <<igVars, failVars>>
    \/ /\ comm[icomm_world + MaxFailedComms].state = "uncommitted"
       /\ CommitMapped
       /\ last_op'.comm <= icomm_world + MaxFailedComms
       /\ UNCHANGED <<igVars, failVars>>
    \/ Destroy /\ UNCHANGED <<igVars, failVars>>
    \/ DestroyReleaseFails /\ UNCHANGED <<igVars, failVars>>

SpecRelease == InitHooks /\ [][NextRelease]_vars

\* failure notifications between commits and destroys, with at most
\* MaxFailedComms communicators built from mappers
NextFailed ==
    \/ MPIDI_CH3I_Comm_init /\ UNCHANGED <<igVars, failVars>>
    \/ CommitBootstrap /\ UNCHANGED <<igVars, failVars>>
    \/ /\ comm[icomm_world + MaxFailedComms].state = "uncommitted"
       /\ CommitMapped
       /\ last_op'.comm <= icomm_world + MaxFailedComms
       /\ UNCHANGED <<igVars, failVars>>
    \/ Destroy /\ UNCHANGED <<igVars, failVars>>
    \/ MPIDI_CH3I_Comm_handle_failed_procs /\ UNCHANGED igVars

SpecFailed == Init /\ [][NextFailed]_vars

\* commits with mappers of any direction; an assertion ends the run
NextAssert ==
    \/ ~Aborted /\ MPIDI_CH3I_Comm_init /\ UNCHANGED <<igVars, failVars>>
    \/ ~Aborted /\ CommitBootstrap /\ UNCHANGED <<igVars, failVars>>
    \/ ~Aborted /\ CommitMapped /\ UNCHANGED <<igVars, failVars>>
    \/ ~Aborted /\ CommitUnchecked /\ UNCHANGED <<igVars, failVars>>

SpecAssert == Init /\ [][NextAssert]_vars

\* commits of which any may run out of memory; the run ends there
NextNoMem ==
    \/ ~OutOfMemory /\ MPIDI_CH3I_Comm_init /\ UNCHANGED <<igVars, failVars>>
    \/ ~OutOfMemory /\ CommitBootstrap /\ UNCHANGED <<igVars, failVars>>
    \/ ~OutOfMemory /\ CommitMapped /\ UNCHANGED <<igVars, failVars>>
    \/ ~OutOfMemory /\ CommitNoMemory /\ UNCHANGED <<igVars, failVars>>

SpecNoMem == Init /\ [][NextNoMem]_vars

\* one call of MPIR_Igather or of MPIR_Igather_sched_auto for every
\* configuration and argument list
InitIgather == CommInit /\ pg_rank = 0 /\ IgInit /\ FailIdle

NextIgather ==
    \/ Igather /\ UNCHANGED <<commVars, failVars>>
    \/ Igather_sched_auto /\ UNCHANGED <<commVars, failVars>>

SpecIgather == InitIgather /\ [][NextIgather]_vars

\* the two processes of one inter-communicator gather call sched_auto, in
\* either order
InitGather == CommInit /\ pg_rank = 0 /\ GatherInit /\ FailIdle

NextGather ==
    \/ RootCall /\ UNCHANGED <<commVars, failVars>>
    \/ PeerCall /\ UNCHANGED <<commVars, failVars>>

SpecGather == InitGather /\ [][NextGather]_vars

(***************************************************************************)
(* Properties of the communicator registry.                                *)
(***************************************************************************)
\* references communicator record rec holds on table t: its vcrt pointer
\* and, for an inter-communicator, its local_vcrt pointer
Refs(rec, t) ==
    (IF rec.vcrt = t THEN 1 ELSE 0)
        + (IF rec.comm_kind = "inter" /\ rec.local_vcrt = t THEN 1 ELSE 0)

RECURSIVE RefsIn(_, _, _)
\* references the communicators of S hold on table t in registry cm
RefsIn(cm, S, t) ==
    IF S = {} THEN 0
    ELSE LET x == CHOOSE y \in S : TRUE
         IN  Refs(cm[x], t) + RefsIn(cm, S \ {x}, t)

\* communicators of registry cm that point at table t
Pointing(cm, t) == {c \in Comms : Refs(cm[c], t) > 0}

\* this step commits communicator c
CommitStep(c) ==
    /\ comm[c].state = "uncommitted"
    /\ last_op'.op = "commit" /\ last_op'.comm = c

\* this step destroys communicator c
DestroyStep(c) ==
    /\ comm[c].state \in {"committed", "commit_failed", "aliased"}
    /\ comm'[c].state = "destroyed"

\* the directions of the pass mapper m belongs to
PassDirs(m) == IF m.dir \in LocalDirs THEN LocalDirs ELSE RemoteDirs

\* the pointer of the committed communicator rec that m's pass sets
DestVcrt(rec, m) ==
    IF rec.comm_kind = "intra" \/ m.dir \in RemoteDirs THEN rec.vcrt
    ELSE rec.local_vcrt

\* a commit of c through mapper m shared m's source table t: the pointer m's
\* pass sets names t, the count of t rose by the references the commit
\* created (one for an intra-communicator), nothing was allocated for c
SharedBy(c, m, t) ==
    /\ DestVcrt(comm'[c], m) = t
    /\ vcrts'[t].ref_count =
          vcrts[t].ref_count + RefsIn(comm', Comms, t) - RefsIn(comm, Comms, t)
    /\ comm'[c].comm_kind = "intra" =>
          /\ Len(vcrts') = Len(vcrts)
          /\ vcrts'[t].ref_count = vcrts[t].ref_count + 1
    /\ comm'[c].comm_kind = "inter" =>
          /\ Len(vcrts') <= Len(vcrts) + 1
          /\ comm'[c].vcrt # comm'[c].local_vcrt /\ comm'[c].local_comm = NULL
                => vcrts'[t].ref_count = vcrts[t].ref_count + 1

C1_Commit ==
    \A c \in GenComms : CommitStep(c) =>
        LET ml == last_op'.mapper_head IN
        \A i \in 1..Len(ml) :
            (ml[i].type = "DUP" /\ SrcCommSize(ml[i]) = SumSizes(ml, PassDirs(ml[i])))
                => SharedBy(c, ml[i], SrcVcrt(ml[i]))

C1_Destroy ==
    \A c \in Comms : DestroyStep(c) =>
        \A t \in 1..Len(vcrts) :
            (Refs(comm[c], t) > 0 /\ Pointing(comm, t) # {c})
                => /\ ~vcrts'[t].freed
                   /\ vcrts'[t].ref_count = vcrts[t].ref_count - Refs(comm[c], t)
                   /\ comm[c].comm_kind = "intra" =>
                         vcrts'[t].ref_count = vcrts[t].ref_count - 1

\* C1: a commit through a DUP mapper whose source group size equals the
\* destination table size allocates no table: the destination points at the
\* source's table, whose reference count rises by one; destroying a
\* communicator that shares its table with a live communicator lowers the
\* count by one and does not free the table
C1_DupShares == [][C1_Commit /\ C1_Destroy]_vars

\* a communicator just committed through a DUP mapper shares comm_world's
\* table with comm_world and icomm_world
C1_Witness ==
    /\ last_op.op = "commit" /\ last_op.comm \in GenComms
    /\ last_op.mapper_head = <<Mapper(comm_world, "L2L", "DUP", <<>>)>>
    /\ comm[last_op.comm].comm_kind = "intra"
    /\ comm[comm_world].state = "committed"
    /\ comm[last_op.comm].vcrt = comm[comm_world].vcrt
    /\ vcrts[comm[comm_world].vcrt].ref_count = 3

\* m is the only mapper of its pass in mapper list ml
OnlyMapperOfPass(ml, m) ==
    Cardinality({i \in 1..Len(ml) : ml[i].dir \in PassDirs(m)}) = 1

\* the index sequence of m is 0..n-1 for the n entries of table t
IdentityOverTable(m, t) ==
    /\ m.src_mapping_size = vcrts[t].size
    /\ m.src_mapping = [i \in 1..vcrts[t].size |-> i - 1]

C2_Commit ==
    \A c \in GenComms : CommitStep(c) =>
        LET ml == last_op'.mapper_head IN
        \A i \in 1..Len(ml) :
            (/\ ml[i].type = "IRREGULAR"
             /\ OnlyMapperOfPass(ml, ml[i])
             /\ IdentityOverTable(ml[i], SrcVcrt(ml[i])))
                => SharedBy(c, ml[i], SrcVcrt(ml[i]))

\* C2: a commit through an irregular mapper whose index sequence is the
\* identity 0..n-1 over the n entries of the source table shares that table
\* (count plus one) and copies nothing
C2_IdentityShares == [][C2_Commit]_vars

\* a communicator just committed through the identity over comm_world
C2_Witness ==
    /\ last_op.op = "commit" /\ last_op.comm \in GenComms
    /\ last_op.mapper_head =
          <<Mapper(comm_world, "L2L", "IRREGULAR", [i \in 1..NProcs |-> i - 1])>>
    /\ comm[comm_world].state = "committed"
    /\ comm[last_op.comm].vcrt = comm[comm_world].vcrt
    /\ Len(vcrts) = 2

\* C3 as stated: the reference count of every table equals the number of
\* communicators that point at it
C3_CountsCommunicators ==
    \A t \in 1..Len(vcrts) :
        vcrts[t].ref_count = Cardinality(Pointing(comm, t))

\* C3: the reference count of every table equals the number of references
\* communicators hold on it, a communicator whose vcrt and local_vcrt name
\* the same table holding two; a table is freed exactly when none is left
C3_CountsReferences ==
    \A t \in 1..Len(vcrts) :
        /\ vcrts[t].ref_count = RefsIn(comm, Comms, t)
        /\ vcrts[t].freed <=> vcrts[t].ref_count = 0

\* an inter-communicator with a companion whose two tables are one table
C3_Witness ==
    \E c \in GenComms :
        /\ comm[c].state = "committed" /\ comm[c].comm_kind = "inter"
        /\ comm[c].vcrt = comm[c].local_vcrt
        /\ comm[c].local_comm # NULL
        /\ vcrts[comm[c].vcrt].ref_count > Cardinality(Pointing(comm, comm[c].vcrt))


(***************************************************************************)
(* Properties of the hook chains.                                          *)
(***************************************************************************)
\* the hook entries of a sequence of invocations
Entries(log) == [i \in 1..Len(log) |-> HookElt(log[i].hook_fn, log[i].param)]

\* the latest operation walked a hook chain
WalkedChain == last_op.op \in {"commit", "destroy"}

\* the chain the latest operation walked, and its hooks as they were registered
Chain == IF last_op.op = "commit" THEN create_hooks ELSE destroy_hooks
Registered == IF last_op.op = "commit" THEN reg_log.create ELSE reg_log.destroy

\* C4 as stated: when no hook returns an error, a commit invokes the create
\* hooks and a destroy the destroy hooks once each in registration order,
\* the first registered first
C4_RegistrationOrder ==
    (WalkedChain /\ mpi_errno = MPI_SUCCESS) => Entries(hook_log) = Registered

\* C5: when a hook returns an error no later hook of the chain is invoked,
\* the operation returns that error, and every earlier hook of the chain
\* has run exactly once
C5_ErrorStopsChain ==
    WalkedChain =>
        /\ Len(hook_log) <= Len(Chain)
        /\ \A i \in 1..Len(hook_log) :
              /\ Entries(hook_log)[i] = Chain[i]
              /\ Cardinality({j \in 1..Len(hook_log) :
                                 Entries(hook_log)[j] = Chain[i]}) = 1
              /\ hook_log[i].ret # MPI_SUCCESS =>
                    /\ i = Len(hook_log)
                    /\ mpi_errno = hook_log[i].ret
        /\ mpi_errno # MPI_SUCCESS =>
              /\ hook_log # <<>>
              /\ hook_log[Len(hook_log)].ret = mpi_errno

\* a chain of two hooks left at the first one, which returned an error
C5_Witness ==
    /\ WalkedChain
    /\ Len(Chain) = 2 /\ Len(hook_log) = 1
    /\ hook_log[1].ret \in ErrCodes
    /\ mpi_errno = hook_log[1].ret

(***************************************************************************)
(* Properties of MPIR_Igather.                                             *)
(***************************************************************************)
\* the call has returned (or an assertion has stopped it)
Done == ig_pc = "done"

\* function f was entered during the call
Called(f) == \E i \in 1..Len(res.calls) : res.calls[i] = f

\* the message size as the specification defines it
SpecNbytes ==
    IF args.root = MPI_ROOT
    THEN args.recvtype_size * args.recvcount * args.remote_size
    ELSE args.sendtype_size * args.sendcount * args.local_size

\* the device-collectives policy hands the operation to the device
DevicePolicy ==
    \/ cvar.DEVICE_COLLECTIVES = "all"
    \/ cvar.DEVICE_COLLECTIVES = "percoll" /\ cvar.IGATHER_DEVICE_COLLECTIVE

\* the configured algorithm for the kind of the communicator
Configured ==
    IF args.comm_kind = "intra" THEN cvar.IGATHER_INTRA_ALGORITHM
    ELSE cvar.IGATHER_INTER_ALGORITHM

\* C6: automatic schedule-based selection on an inter-communicator with a
\* participating root runs the short algorithm exactly when nbytes is below
\* the threshold and the long algorithm exactly when it is not, nbytes being
\* recvtype size * recvcount * remote size on MPI_ROOT and sendtype size *
\* sendcount * local size on the other ranks
C6_ShortIffBelowThreshold ==
    (Done /\ Called("inter_sched_auto") /\ args.root # MPI_PROC_NULL) =>
        /\ Called("inter_sched_short")
              <=> SpecNbytes < cvar.GATHER_INTER_SHORT_MSG_SIZE
        /\ Called("inter_sched_long")
              <=> SpecNbytes >= cvar.GATHER_INTER_SHORT_MSG_SIZE
        /\ res.sched = IF SpecNbytes < cvar.GATHER_INTER_SHORT_MSG_SIZE
                       THEN <<"inter_sched_short">> ELSE <<"inter_sched_long">>

\* on MPI_ROOT with nbytes equal to the threshold the long algorithm ran
C6_Witness ==
    /\ Done /\ args.comm_kind = "inter" /\ args.root = MPI_ROOT
    /\ cvar.IGATHER_INTER_ALGORITHM = "sched_auto" /\ ~DevicePolicy
    /\ SpecNbytes = cvar.GATHER_INTER_SHORT_MSG_SIZE
    /\ args.recvtype_size * args.recvcount * args.remote_size
          # args.sendtype_size * args.sendcount * args.local_size
    /\ res.calls = <<"impl", "inter_sched_auto", "inter_sched_long">>

C9_StaticConfiguration ==
    (Done /\ ~DevicePolicy) =>
        /\ Called("Csel_search") <=> Configured = "auto"
        /\ Configured = "gentran_tree" =>
              /\ res.calls = <<"impl", "intra_gentran_tree">>
              /\ res.k = cvar.IGATHER_TREE_KVAL
        /\ Configured = "sched_binomial" =>
              res.calls = <<"impl", "intra_sched_binomial">>
        /\ Configured = "sched_long" =>
              res.calls = <<"impl", "inter_sched_long">>
        /\ Configured = "sched_short" =>
              res.calls = <<"impl", "inter_sched_short">>
        /\ Configured = "sched_auto" =>
              /\ Len(res.calls) >= 2
              /\ res.calls[2] = IF args.comm_kind = "intra"
                                THEN "intra_sched_auto" ELSE "inter_sched_auto"
        /\ Configured # "auto" => ~res.asserted

\* an inter-communicator call configured as sched_short while the
\* intra-communicator configuration is "auto"
C9_Witness ==
    /\ Done /\ ~DevicePolicy /\ args.comm_kind = "inter"
    /\ cvar.IGATHER_INTER_ALGORITHM = "sched_short"
    /\ cvar.IGATHER_INTRA_ALGORITHM = "auto"
    /\ res.calls = <<"impl", "inter_sched_short">>
    /\ res.request = "sched_request"

\* C10 as stated: on every path the request is "none" when the dispatch
\* target is entered, and a call that returns an error without a request
\* leaves the caller's handle "none"
C10_RequestReset ==
    (Done /\ ~res.asserted) =>
        /\ res.req_at_dispatch = "none"
        /\ res.mpi_errno # MPI_SUCCESS => res.request = "none"

\* a call of MPIR_Igather or MPIR_Igather_sched_auto has returned
Returned == ig_pc \in {"done", "sched_done"} /\ ~res.asserted

\* C11: the call returns success exactly when the algorithm or device entry
\* point it chose returned success, and the error code the caller receives
\* is the one that callee returned, through every layer in between
C11_ErrorUnchanged ==
    Returned =>
        /\ res.mpi_errno = res.leaf.err
        /\ res.mpi_errno = MPI_SUCCESS <=> res.leaf.err = MPI_SUCCESS

\* an error of the long algorithm came back through inter_sched_auto,
\* allcomm_auto and impl
C11_Witness ==
    /\ ig_pc = "done"
    /\ res.calls = <<"impl", "allcomm_auto", "Csel_search", "inter_sched_auto",
                     "inter_sched_long">>
    /\ res.leaf.err = MaxErr
    /\ res.mpi_errno = MaxErr

(***************************************************************************)
(* Properties of failure notifications.                                    *)
(***************************************************************************)
\* this step is a failure notification
NotifyStep == last_op'.op = "handle_failed_procs"

\* communicators in the live-communicator list
Live == {comm_list[i] : i \in 1..Len(comm_list)}

\* the processes of the remote group of communicator c
RemoteGroup(c) ==
    {vcrts[comm[c].vcrt].vcr_table[i] : i \in 1..comm[c].remote_size}

\* C12 as stated: a notification, its group empty or not, leaves the
\* any-source flag of every live communicator whose remote group holds no
\* member of the group as it was
C12_DisjointUnchanged ==
    [][NotifyStep =>
          \A c \in Live :
              RemoteGroup(c) \cap new_failed_procs' = {} =>
                  comm'[c].anysource_enabled = comm[c].anysource_enabled]_vars

Holding == {c \in Comms : comm[c].state \in {"committed", "commit_failed", "aliased"}}

\* a destroy of c that succeeded invoked every destroy hook and released one
\* reference for each table pointer of c; a table is freed iff its count is 0
C14_Destroy ==
    \A c \in Comms : DestroyStep(c) =>
        /\ Entries(hook_log') = destroy_hooks
        /\ c \notin {comm_list'[i] : i \in 1..Len(comm_list')}
        /\ \A t \in 1..Len(vcrts) :
              /\ vcrts'[t].ref_count = vcrts[t].ref_count - Refs(comm[c], t)
              /\ (comm[c].vcrt = t /\ comm[c].local_vcrt # t) =>
                    vcrts'[t].ref_count = vcrts[t].ref_count - 1
              /\ vcrts'[t].freed <=> vcrts'[t].ref_count = 0

\* no communicator that holds references points at a freed table
C14_NoDangling ==
    \A c \in Holding :
        /\ ~vcrts[comm[c].vcrt].freed
        /\ comm[c].comm_kind = "inter" => ~vcrts[comm[c].local_vcrt].freed

\* C14: a successful destroy runs the destroy hooks and lowers by one the
\* count of the communicator's table and, for an inter-communicator, of its
\* local table; a table is freed exactly at count zero, and after any
\* commits and destroys no live communicator points at a freed table
C14_ReleaseOnDestroy == [][C14_Destroy /\ C14_NoDangling']_vars

\* a destroy has just freed one table while comm_world's table, shared with
\* another communicator, is still allocated
C14_Witness ==
    /\ last_op.op = "destroy" /\ last_op.comm \in GenComms
    /\ comm[last_op.comm].state = "destroyed"
    /\ \E t \in 1..Len(vcrts) : t > 2 /\ vcrts[t].freed
    /\ comm[comm_world].state = "committed"
    /\ vcrts[comm[comm_world].vcrt].ref_count >= 2

\* this step is a commit attempt of communicator c built from mappers
CommitAttempt(c) ==
    /\ comm[c].state = "uncommitted"
    /\ last_op'.op \in {"commit", "assertion_failed"} /\ last_op'.comm = c
    /\ last_op'.mapper_head # <<>>

\* the attempt got past the checks / was stopped by an assertion having
\* built no table
Accepted(c) == last_op'.op = "commit" /\ comm'[c].state = "committed"
Rejected(c) ==
    /\ last_op'.op = "assertion_failed" /\ comm'[c].state = "asserted"
    /\ vcrts' = vcrts
    /\ comm'[c].vcrt = NULL /\ comm'[c].local_vcrt = NULL

\* the direction rule as the specification words it
SpecConsistent(m, dest_kind) ==
    /\ m.dir \in {"L2L", "L2R"} => comm[m.src_comm].comm_kind = "intra"
    /\ m.dir \in {"R2L", "R2R"} => comm[m.src_comm].comm_kind = "inter"
    /\ m.dir \in {"L2R", "R2R"} => dest_kind = "inter"

\* the direction rule with local directions allowed from either kind
DirConsistent(m, dest_kind) ==
    /\ m.dir \in {"R2L", "R2R"} => comm[m.src_comm].comm_kind = "inter"
    /\ m.dir \in {"L2R", "R2R"} => dest_kind = "inter"

\* C15 as stated: a commit is accepted exactly when every mapper is L2L or
\* L2R from an intra-communicator, or R2L or R2R from an inter-communicator,
\* with L2R and R2R only into an inter-communicator; otherwise an assertion
\* fails and no table is built
C15_DirectionsAsStated ==
    [][\A c \in GenComms : CommitAttempt(c) =>
          LET ml == last_op'.mapper_head IN
          IF \A i \in 1..Len(ml) : SpecConsistent(ml[i], comm'[c].comm_kind)
          THEN Accepted(c) ELSE Rejected(c)]_vars

\* C15: a commit is accepted exactly when every R2L or R2R mapper has an
\* inter-communicator as source and every L2R or R2R mapper an
\* inter-communicator as destination, L2L and L2R being accepted from a
\* source of either kind; otherwise an assertion fails and no table is built
C15_Directions ==
    [][\A c \in GenComms : CommitAttempt(c) =>
          LET ml == last_op'.mapper_head IN
          IF \A i \in 1..Len(ml) : DirConsistent(ml[i], comm'[c].comm_kind)
          THEN Accepted(c) ELSE Rejected(c)]_vars

\* an L2R mapper into an intra-communicator ended in an assertion
C15_Witness ==
    /\ Aborted
    /\ comm[last_op.comm].state = "asserted"
    /\ comm[last_op.comm].comm_kind = "intra"
    /\ last_op.mapper_head = <<Mapper(comm_world, "L2R", "DUP", <<>>)>>
    /\ Len(vcrts) = 2

(***************************************************************************)
(* Properties of the cost-model lookup.                                    *)
(***************************************************************************)
\* the lookup found nothing, or a container of no Igather algorithm
LookupMiss == res.cnt.id \in {"NULL", "other"}

\* C16: under "auto" a lookup that finds no container, or one that names no
\* gather algorithm, ends in an assertion failure: no algorithm is entered,
\* no request is created, nothing is returned; any other lookup returns
C16_LookupMissAsserts ==
    (Done /\ Called("Csel_search")) =>
        /\ Configured = "auto" /\ ~DevicePolicy
        /\ res.asserted <=> LookupMiss
        /\ LookupMiss =>
              /\ res.calls = <<"impl", "allcomm_auto", "Csel_search">>
              /\ res.sched = <<>>
              /\ res.request = "none"
              /\ res.leaf = Leaf(MPI_SUCCESS, "none")

\* a lookup returned a container that names no Igather algorithm
C16_Witness ==
    /\ Done /\ Configured = "auto"
    /\ res.cnt.id = "other"
    /\ res.asserted
    /\ res.calls = <<"impl", "allcomm_auto", "Csel_search">>

(***************************************************************************)
(* Properties of a commit that runs out of memory.                         *)
(***************************************************************************)
\* this step is a commit during which MPIDI_VCRT_Create failed
NoMemStep == ~OutOfMemory /\ OutOfMemory'

\* C17: if allocating a VC table fails during the commit of any communicator,
\* the commit returns an error, nothing is written through the unallocated
\* table, and the tables and references are what they were before the commit
C17_AllocFailureRecovered ==
    [][NoMemStep =>
          /\ last_op'.op = "commit_nomem"
          /\ mpi_errno' # MPI_SUCCESS
          /\ vcrts' = vcrts]_vars

(***************************************************************************)
(* Properties of hook registration.                                        *)
(***************************************************************************)
\* list after is list before with elt linked in at one place
GrownBy(before, after, elt) ==
    /\ Len(after) = Len(before) + 1
    /\ \E i \in 1..Len(after) :
          /\ after[i] = elt
          /\ \A j \in 1..Len(before) :
                before[j] = after[IF j < i THEN j ELSE j + 1]

\* what one registration did to its own list and to the other list
Registration(own, own_after, other, other_after) ==
    /\ other_after = other
    /\ IF reg_log'.malloc_failed
       THEN mpi_errno' # MPI_SUCCESS /\ own_after = own
       ELSE mpi_errno' = MPI_SUCCESS /\ GrownBy(own, own_after, reg_log'.given)

\* C18: a registration whose allocation fails returns an error and leaves
\* both hook lists as they were; a successful one adds exactly one entry with
\* the given function and parameter to its own list and leaves the other alone
C18_Registration ==
    [][/\ last_op'.op = "register_create" =>
             Registration(create_hooks, create_hooks', destroy_hooks, destroy_hooks')
       /\ last_op'.op = "register_destroy" =>
             Registration(destroy_hooks, destroy_hooks', create_hooks, create_hooks')]_vars

\* a destroy-hook registration failed for lack of memory after a create-hook
\* registration had succeeded
C18_Witness ==
    /\ last_op.op = "register_destroy"
    /\ reg_log.malloc_failed
    /\ mpi_errno = MPI_ERR_OTHER
    /\ Len(create_hooks) = 2
    /\ Len(destroy_hooks) = 1

(***************************************************************************)
(* Properties of module finalization.                                      *)
(***************************************************************************)
\* how many times entry e occurs in list
Occurrences(list, e) == Cardinality({i \in 1..Len(list) : list[i] = e})

\* this step is the finalize callback
FinalizeStep == ~reg_log.finalized /\ reg_log'.finalized

\* C19: finalization releases every create-hook and destroy-hook entry
\* exactly once and leaves both lists empty, and a commit or destroy after
\* finalization invokes no hook
C19_Finalization ==
    [][/\ FinalizeStep =>
             /\ create_hooks' = <<>> /\ destroy_hooks' = <<>>
             /\ Len(reg_log'.freed) = Len(create_hooks) + Len(destroy_hooks)
             /\ \A e \in {HookElt("comm_created", NULL),
                          HookElt("comm_destroyed", NULL)} \cup UserHooks :
                   Occurrences(reg_log'.freed, e) =
                       Occurrences(create_hooks, e) + Occurrences(destroy_hooks, e)
       /\ (reg_log'.finalized /\ last_op'.op \in {"commit", "destroy"}) =>
             hook_log' = <<>>]_vars

\* after a finalization that released four entries a communicator committed
\* before it has been destroyed without any hook
C19_Witness ==
    /\ reg_log.finalized
    /\ Len(reg_log.freed) = 4
    /\ last_op.op = "destroy"
    /\ comm[last_op.comm].state = "destroyed"
    /\ create_hooks = <<>> /\ destroy_hooks = <<>>

(***************************************************************************)
(* Properties of the selection as a whole.                                 *)
(***************************************************************************)
\* the device entry point and the algorithm entries
Targets ==
    {"MPID_Igather", "intra_gentran_tree", "intra_sched_binomial",
     "inter_sched_short", "inter_sched_long"}

\* how many times the call entered one of them
TargetsEntered == Cardinality({i \in 1..Len(res.calls) : res.calls[i] \in Targets})

\* the selection ended in the empty schedule of the sentinel root
EmptySchedule ==
    /\ Called("inter_sched_auto")
    /\ ~Called("inter_sched_short") /\ ~Called("inter_sched_long")

\* exactly one of the device, an algorithm or the empty schedule
OneSelection ==
    /\ TargetsEntered + (IF EmptySchedule THEN 1 ELSE 0) = 1
    /\ EmptySchedule => args.root = MPI_PROC_NULL /\ res.sched = <<>>
    /\ Called("MPID_Igather") => res.calls = <<"MPID_Igather">>

Contributed(m) ==
    IF m.type = "IRREGULAR" THEN Len(m.src_mapping)
    ELSE IF m.dir \in {"L2L", "L2R"} THEN comm[m.src_comm].local_size
    ELSE comm[m.src_comm].remote_size

\* the table of the source group m's direction names: the local group of an
\* inter-communicator is in its local table, every other group in the
\* primary table
SourceTable(m) ==
    IF m.dir \in {"L2L", "L2R"} /\ comm[m.src_comm].comm_kind = "inter"
    THEN comm[m.src_comm].local_vcrt
    ELSE comm[m.src_comm].vcrt

\* mappers of list ml that contribute to the same table as ml[j]
SameTable(ml, j) == {k \in 1..Len(ml) : (ml[k].dir \in LocalDirs) <=> (ml[j].dir \in LocalDirs)}

RECURSIVE SumOver(_, _)
\* the ranks contributed by the mappers of ml at the positions in K
SumOver(ml, K) ==
    IF K = {} THEN 0
    ELSE LET k == CHOOSE x \in K : TRUE
         IN  Contributed(ml[k]) + SumOver(ml, K \ {k})

\* offset of ml[j]: the ranks of the earlier mappers of the same table
OffsetOf(ml, j) == SumOver(ml, {k \in SameTable(ml, j) : k < j})

\* the source rank that mapper m puts at place i of its range
SourceRank(m, i) == IF m.type = "IRREGULAR" THEN m.src_mapping[i + 1] ELSE i

\* the slots of mapper ml[j] in the table of c it contributes to hold the
\* endpoints of its source ranks, and lie within the table
RangeFilled(c, ml, j) ==
    LET dest == vcrts'[DestVcrt(comm'[c], ml[j])].vcr_table
        src == vcrts[SourceTable(ml[j])].vcr_table
    IN  /\ OffsetOf(ml, j) + Contributed(ml[j]) <= Len(dest)
        /\ \A i \in 0..(Contributed(ml[j]) - 1) :
              dest[OffsetOf(ml, j) + i + 1] = src[SourceRank(ml[j], i) + 1]

\* C21: after the commit of a mapper-built communicator, slot offset_j + i of
\* the table mapper j contributes to holds the endpoint of source rank
\* src_mapping[i] (irregular) or i (duplication) of the source table chosen by
\* the mapper's direction, offset_j being the sum of the sizes of the earlier
\* mappers of the same table, whether the table was shared or copied
C21_SlotsFilled ==
    [][\A c \in GenComms : CommitStep(c) =>
          \A j \in 1..Len(last_op'.mapper_head) :
              RangeFilled(c, last_op'.mapper_head, j)]_vars

\* an intra-communicator built from two mappers, the second of which takes
\* the local group of an inter-communicator at a non-zero offset
C21_Witness ==
    /\ last_op.op = "commit" /\ last_op.comm \in GenComms
    /\ Len(last_op.mapper_head) = 2
    /\ comm[last_op.comm].comm_kind = "intra"
    /\ last_op.mapper_head[2].dir = "L2L"
    /\ last_op.mapper_head[2].src_comm # last_op.comm
    /\ comm[last_op.mapper_head[2].src_comm].comm_kind = "inter"
    /\ comm[last_op.mapper_head[2].src_comm].state = "committed"
    /\ comm[last_op.mapper_head[2].src_comm].vcrt
          # comm[last_op.mapper_head[2].src_comm].local_vcrt
    /\ comm[last_op.comm].local_size > Len(last_op.mapper_head[2].src_mapping)

\* C22: after a commit each table of the communicator has exactly one entry
\* per rank of its group: its length is the sum of the sizes of the mappers
\* that contribute to it, also when the table is shared with a source
C22_OneEntryPerRank ==
    [][\A c \in GenComms : CommitStep(c) =>
          LET ml == last_op'.mapper_head IN
          \A j \in 1..Len(ml) :
              Len(vcrts'[DestVcrt(comm'[c], ml[j])].vcr_table)
                  = SumOver(ml, SameTable(ml, j))]_vars

(***************************************************************************)
(* Properties of the companion of an inter-communicator.                   *)
(***************************************************************************)
\* the reference count of table t before this step, none if t is new
CountBefore(t) == IF t \in 1..Len(vcrts) THEN vcrts[t].ref_count ELSE 0

\* the commit of c raised the count of every table by the references c
\* itself holds, plus extra(t)
CountsRaised(c, extra(_)) ==
    \A t \in 1..Len(vcrts') :
        vcrts'[t].ref_count = CountBefore(t) + Refs(comm'[c], t) + extra(t)

\* C23: the commit of an inter-communicator with a companion makes the
\* companion's table the very table built as the local table and raises that
\* table's count by exactly one for the alias; the commit of an
\* inter-communicator without companion, or of an intra-communicator, takes
\* no such reference and touches no other communicator
C23_CompanionAlias ==
    [][\A c \in GenComms : CommitStep(c) =>
          LET lc == comm'[c].local_comm
              lt == comm'[c].local_vcrt
              One(t) == IF t = lt THEN 1 ELSE 0
              None(t) == 0
          IN  IF comm'[c].comm_kind = "inter" /\ lc # NULL
              THEN /\ comm'[lc].vcrt = lt
                   /\ CountsRaised(c, One)
                   /\ \A d \in Comms \ {c, lc} : comm'[d] = comm[d]
              ELSE /\ CountsRaised(c, None)
                   /\ \A d \in Comms \ {c} : comm'[d] = comm[d]]_vars

\* an inter-communicator just committed with a companion: its local table is
\* a table of its own, held by the communicator and by the companion
C23_Witness ==
    /\ last_op.op = "commit" /\ last_op.comm \in GenComms
    /\ comm[last_op.comm].comm_kind = "inter"
    /\ comm[last_op.comm].local_comm # NULL
    /\ comm[comm[last_op.comm].local_comm].vcrt = comm[last_op.comm].local_vcrt
    /\ comm[last_op.comm].local_vcrt # comm[last_op.comm].vcrt
    /\ vcrts[comm[last_op.comm].local_vcrt].ref_count = 2

(***************************************************************************)
(* Properties of the bootstrap communicators.                              *)
(***************************************************************************)
\* the step allocated one table, t, holding the endpoints eps and one
\* reference
Allocated(t, eps) ==
    /\ Len(vcrts') = Len(vcrts) + 1
    /\ t = Len(vcrts')
    /\ vcrts'[t].vcr_table = eps
    /\ vcrts'[t].ref_count = 1
    /\ \A u \in 1..Len(vcrts) : vcrts'[u] = vcrts[u]

\* the step shared table t: nothing allocated, one reference more
Shared(t) ==
    /\ Len(vcrts') = Len(vcrts)
    /\ vcrts'[t].vcr_table = vcrts[t].vcr_table
    /\ vcrts'[t].ref_count = vcrts[t].ref_count + 1
    /\ \A u \in 1..Len(vcrts) : u # t => vcrts'[u] = vcrts[u]

\* C24: the commit of comm_world builds a table with one entry per process,
\* entry p being the process group's endpoint of rank p; the commit of
\* comm_self builds a table of one entry, the endpoint of the calling
\* process; the commit of icomm_world shares comm_world's table, whose count
\* rises by one, and allocates nothing
C24_Bootstrap ==
    [][/\ CommitStep(comm_world) =>
             /\ Allocated(comm'[comm_world].vcrt, [p \in 1..NProcs |-> p - 1])
             /\ comm'[comm_world].remote_size = NProcs
       /\ CommitStep(comm_self) =>
             /\ Allocated(comm'[comm_self].vcrt, <<pg_rank>>)
             /\ comm'[comm_self].remote_size = 1
       /\ CommitStep(icomm_world) =>
             /\ comm'[icomm_world].vcrt = comm[comm_world].vcrt
             /\ Shared(comm[comm_world].vcrt)
             /\ comm'[icomm_world].remote_size = comm[comm_world].remote_size]_vars

\* on the process of rank 1 all three have been committed: comm_self holds
\* the endpoint of rank 1, icomm_world shares comm_world's table
C24_Witness ==
    /\ pg_rank = 1
    /\ \A b \in BootComms : comm[b].state = "committed"
    /\ vcrts[comm[comm_self].vcrt].vcr_table = <<1>>
    /\ comm[icomm_world].vcrt = comm[comm_world].vcrt
    /\ vcrts[comm[comm_world].vcrt].vcr_table = [p \in 1..NProcs |-> p - 1]
    /\ vcrts[comm[comm_world].vcrt].ref_count = 2

(***************************************************************************)
(* Properties of the sched_auto tier.                                      *)
(***************************************************************************)
\* the call was resolved by the sched_auto tier: configured as such and not
\* handed to the device, or MPIR_Igather_sched_auto called directly
BySchedAuto ==
    \/ Done /\ ~DevicePolicy /\ Configured = "sched_auto"
    \/ ig_pc = "sched_done"

\* what the short/long rule emits for the arguments of the call
ThresholdRule ==
    IF args.root = MPI_PROC_NULL THEN <<>>
    ELSE IF SpecNbytes < cvar.GATHER_INTER_SHORT_MSG_SIZE
    THEN <<"inter_sched_short">>
    ELSE <<"inter_sched_long">>

\* C25: under sched_auto an intra-communicator call always emits the binomial
\* algorithm, whatever the sizes, counts, root and threshold, and an
\* inter-communicator call always goes through the short/long threshold
\* rule; the kind of the communicator alone decides which
C25_SchedAutoByKind ==
    BySchedAuto =>
        /\ ~res.asserted
        /\ ig_pc = "sched_done" => res.calls[1] = "sched_auto"
        /\ args.comm_kind = "intra" =>
              /\ Called("intra_sched_auto") /\ ~Called("inter_sched_auto")
              /\ res.sched = <<"intra_sched_binomial">>
        /\ args.comm_kind = "inter" =>
              /\ Called("inter_sched_auto") /\ ~Called("intra_sched_auto")
              /\ res.sched = ThresholdRule

\* MPIR_Igather_sched_auto called on an inter-communicator whose message is
\* below the threshold chose the short algorithm
C25_Witness ==
    /\ ig_pc = "sched_done"
    /\ args.comm_kind = "inter" /\ args.root = MPI_ROOT
    /\ SpecNbytes < cvar.GATHER_INTER_SHORT_MSG_SIZE
    /\ res.calls = <<"sched_auto", "inter_sched_auto", "inter_sched_short">>
    /\ res.sched = <<"inter_sched_short">>

(***************************************************************************)
(* Properties of the live-communicator registry.                           *)
(***************************************************************************)
\* communicators whose commit has succeeded and which are not destroyed
Committed == {c \in Comms : comm[c].state = "committed"}

\* how far a communicator is in its life: not committed, committed, destroyed
Stage(st) ==
    IF st = "committed" THEN 1 ELSE IF st = "destroyed" THEN 2 ELSE 0

\* the registry holds exactly the communicators of Committed, each once
RegistryExact ==
    /\ Live = Committed
    /\ Len(comm_list) = Cardinality(Committed)

\* C26: in every state reached by commits and destroys, hooks failing or not,
\* the registry holds exactly the communicators whose commit has succeeded
\* and which have not been destroyed, each at most once, and no communicator
\* ever moves backwards in uncommitted -> committed -> destroyed
C26_RegistryExact ==
    [][/\ RegistryExact'
       /\ \A c \in Comms : Stage(comm'[c].state) >= Stage(comm[c].state)]_vars

(***************************************************************************)
(* Properties of one gather seen from both groups.                         *)
(***************************************************************************)
\* both processes have made their call
BothDone == ig_pc = "sched_done" /\ peer.pc = "sched_done"

\* the remote rank sends what the root expects from it
SignaturesMatch ==
    peer.args.sendtype_size * peer.args.sendcount
        = args.recvtype_size * args.recvcount

\* C27: under inter-communicator sched_auto, when the send signature of the
\* remote-group rank matches the root's receive signature, the root and the
\* remote-group rank select the same algorithm, short or long, for every
\* pair of group sizes and every threshold
C27_SameAlgorithm ==
    (BothDone /\ SignaturesMatch) =>
        /\ res.sched = peer.res.sched
        /\ res.sched \in {<<"inter_sched_short">>, <<"inter_sched_long">>}

\* groups of different sizes, matching signatures, a message at the
\* threshold: both sides chose the long algorithm
C27_Witness ==
    /\ BothDone /\ SignaturesMatch
    /\ args.local_size # args.remote_size
    /\ args.recvtype_size * args.recvcount * args.remote_size
          = cvar.GATHER_INTER_SHORT_MSG_SIZE
    /\ res.sched = <<"inter_sched_long">>
    /\ peer.res.sched = <<"inter_sched_long">>

(***************************************************************************)
(* Properties of the any-source flag over time.                            *)
(***************************************************************************)
\* live communicators on which any-source is disabled
Disabled == {c \in Live : comm[c].state = "committed" /\ ~comm[c].anysource_enabled}

\* C28: once any-source is disabled on a live communicator, no failure
\* notification and no commit or destroy of another communicator enables it
\* again before that communicator is destroyed
C28_DisablingIsMonotone ==
    [][\A c \in Disabled :
          \/ comm'[c].state = "destroyed"
          \/ /\ comm'[c].state = "committed"
             /\ ~comm'[c].anysource_enabled
             /\ c \in Live']_vars

\* a notification has just left disabled a communicator whose remote group
\* holds none of the processes it named: the flag was cleared by an earlier
\* notification
C28_Witness ==
    /\ last_op.op = "handle_failed_procs"
    /\ new_failed_procs # {}
    /\ \E c \in Disabled \ {comm_world, icomm_world} :
          RemoteGroup(c) \cap new_failed_procs = {}

\* every listed communicator that the notification had to disable is disabled
ScanComplete ==
    \A c \in Live :
        (\/ RemoteGroup(c) \cap new_failed_procs # {}
         \/ c \in {comm_world, icomm_world}) => ~comm[c].anysource_enabled

\* C29: a failure notification signals the progress engine exactly once, with
\* the scan of every live communicator behind it, whether or not it changed
\* any flag and also when no communicator is listed
C29_SignalledOnce ==
    [][NotifyStep => progress_signal' = 1 /\ ScanComplete']_vars

\* a notification found no communicator listed, changed nothing and signalled
C29_Witness ==
    /\ last_op.op = "handle_failed_procs"
    /\ new_failed_procs # {}
    /\ comm_list = <<>>
    /\ \A c \in Comms : comm[c].state = "uncommitted"
    /\ progress_signal = 1

(***************************************************************************)
(* Destroys that fail.                                                     *)
(***************************************************************************)
RefCounts(T) == [h \in 1..Len(T) |-> T[h].ref_count]

\* a destroy has just returned the error of one of its hooks
HookFailedStep == last_op'.op = "destroy" /\ mpi_errno' # MPI_SUCCESS

\* the release of the primary table of inter-communicator c has just failed
PrimaryFailedStep(c) ==
    /\ last_op' = Op("destroy_vcrt_failed", c, <<>>)
    /\ comm[c].comm_kind = "inter"

\* C30: a destroy that returns the error of a destroy hook leaves the
\* reference count of every table as it was, and a destroy of an
\* inter-communicator whose release of the primary table fails does not
\* release the local table
C30_FailedDestroyReleasesNothing ==
    [][/\ HookFailedStep => RefCounts(vcrts') = RefCounts(vcrts)
       /\ \A c \in Comms :
             PrimaryFailedStep(c) =>
                 vcrts'[comm[c].local_vcrt] = vcrts[comm[c].local_vcrt]]_vars

\* the release of the primary table of an inter-communicator failed after a
\* client destroy hook had run, and its local table still holds its
\* references
C30_Witness ==
    /\ last_op.op = "destroy_vcrt_failed"
    /\ mpi_errno # MPI_SUCCESS
    /\ Len(hook_log) >= 2
    /\ LET rec == comm[last_op.comm] IN
       /\ rec.comm_kind = "inter"
       /\ rec.state = "destroy_failed"
       /\ rec.local_vcrt # rec.vcrt
       /\ vcrts[rec.local_vcrt].ref_count >= 1
       /\ ~vcrts[rec.local_vcrt].freed

\* a destroy stopped at a failing client hook with the tables a mapped
\* communicator shares left as they were
C30_HookFailureSeen ==
    /\ last_op.op = "destroy"
    /\ mpi_errno # MPI_SUCCESS
    /\ comm[last_op.comm].state = "committed"
    /\ last_op.comm > icomm_world

====
